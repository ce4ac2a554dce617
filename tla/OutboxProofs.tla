---------------------------- MODULE OutboxProofs ----------------------------
(***************************************************************************)
(* Proofs about the outbox: for any number of settlements and events, any  *)
(* batch size and any faults, the stream holds the events of a settlement  *)
(* in order and without a gap, and nothing unheard is marked published.    *)
(***************************************************************************)
EXTENDS Outbox, SumProofs, SequenceTheorems

----------------------------------------------------------------------------
(* The inductive invariant. *)

Heard(s) == Channel!Latest(s)

Types ==
  /\ clock \in Nat
  /\ stamped \in [Settlements -> Nat \cup {Null}]
  /\ stamps \in [Settlements -> Seq(Nat)]
  /\ heard \in [Settlements -> Seq(Nat)]
  /\ marked \subseteq Event
  /\ relay \in [pc : {"idle", "publish", "mark"}, batch : SUBSET Event, row : Event \cup {Null}]

\* The events of a settlement are stamped in the order of their numbers, although
\* others commit in between: the row lock is held from the stamp to the commit.
InOrder ==
  \A s \in Settlements :
    /\ \A k \in DOMAIN stamps[s] : stamps[s][k] < clock
    /\ stamped[s] # Null =>
         stamped[s] < clock /\ \A k \in DOMAIN stamps[s] : stamps[s][k] < stamped[s]
    /\ \A j, k \in DOMAIN stamps[s] : j < k => stamps[s][j] < stamps[s][k]

\* The stream is at most one event ahead of the marks, and never behind them.
Abreast ==
  \A s \in Settlements :
    /\ Heard(s) \in 0 .. Len(stamps[s])
    /\ \A n \in 1 .. Heard(s) - 1 : [sid |-> s, n |-> n] \in marked
    /\ \A e \in marked : e.sid = s => e.n <= Heard(s)

\* A batch leaves no older event of its settlements behind.
BatchFromTheFirst ==
  /\ IsFiniteSet(Committed)
  /\ relay.batch \subseteq Unpublished
  /\ \A e \in relay.batch : \A n \in 1 .. e.n - 1 :
       [sid |-> e.sid, n |-> n] \in marked \cup relay.batch
  /\ relay.pc = "mark" => relay.row \in relay.batch /\ Heard(relay.row.sid) = relay.row.n

OInv == Types /\ InOrder /\ Abreast /\ BatchFromTheFirst /\ MarkedIsHeard

----------------------------------------------------------------------------
(* Lemmas about the events and the stream. *)

\* What it takes for an event to be committed.
LEMMA CommittedEvent ==
  ASSUME Types, NEW e
  PROVE  e \in Committed <=> e \in Event /\ e.n \in 1 .. Len(stamps[e.sid])
<1>1. \A s \in Settlements : DOMAIN stamps[s] = 1 .. Len(stamps[s]) /\ Len(stamps[s]) \in Nat
  BY DEF Types
<1>2. ASSUME e \in Committed PROVE e \in Event /\ e.n \in 1 .. Len(stamps[e.sid])
  <2>1. PICK s \in Settlements : e \in {[sid |-> s, n |-> k] : k \in DOMAIN stamps[s]}
    BY <1>2 DEF Committed
  <2>2. PICK k \in DOMAIN stamps[s] : e = [sid |-> s, n |-> k]
    BY <2>1
  <2>3. k \in 1 .. Len(stamps[s]) /\ k \in Nat
    BY <1>1, <2>2
  <2> QED BY <2>2, <2>3 DEF Event
<1>3. ASSUME e \in Event, e.n \in 1 .. Len(stamps[e.sid]) PROVE e \in Committed
  <2>1. e.sid \in Settlements /\ e = [sid |-> e.sid, n |-> e.n]
    BY <1>3 DEF Event
  <2>2. e \in {[sid |-> e.sid, n |-> k] : k \in DOMAIN stamps[e.sid]}
    BY <1>1, <1>3, <2>1
  <2> QED BY <2>1, <2>2 DEF Committed
<1> QED BY <1>2, <1>3

\* The stream's last event of a settlement is a number.
LEMMA HeardType ==
  ASSUME Types, NEW s \in Settlements
  PROVE  /\ Heard(s) \in Nat
         /\ Heard(s) # 0 => heard[s] # <<>> /\ Heard(s) = heard[s][Len(heard[s])]
<1>1. heard[s] \in Seq(Nat)
  BY DEF Types
<1>2. CASE heard[s] = <<>>
  BY <1>2 DEF Heard, Channel!Latest
<1>3. CASE heard[s] # <<>>
  <2>1. heard[s][Len(heard[s])] \in Nat
    BY <1>1, <1>3
  <2> QED BY <1>3, <2>1 DEF Heard, Channel!Latest
<1> QED BY <1>2, <1>3

\* After a delivery the last event is the delivered one; other settlements keep theirs.
LEMMA HeardAfter ==
  ASSUME Types, NEW e \in Event, Deliver(e)
  PROVE  /\ heard' \in [Settlements -> Seq(Nat)]
         /\ heard'[e.sid] = Append(heard[e.sid], e.n)
         /\ Heard(e.sid)' = e.n
         /\ \A s \in Settlements : s # e.sid => heard'[s] = heard[s] /\ Heard(s)' = Heard(s)
<1>1. e.sid \in Settlements /\ e.n \in Nat /\ heard[e.sid] \in Seq(Nat)
  BY DEF Types, Event
<1>2. heard' = [heard EXCEPT ![e.sid] = Append(heard[e.sid], e.n)]
  BY DEF Deliver
<1>3. heard'[e.sid] = Append(heard[e.sid], e.n) /\ heard' \in [Settlements -> Seq(Nat)]
  BY <1>1, <1>2 DEF Types
<1>4. heard'[e.sid] # <<>> /\ heard'[e.sid][Len(heard'[e.sid])] = e.n
  BY <1>1, <1>3, AppendProperties
<1>5. Heard(e.sid)' = e.n
  BY <1>4 DEF Heard, Channel!Latest
<1>6. ASSUME NEW s \in Settlements, s # e.sid
      PROVE  heard'[s] = heard[s] /\ Heard(s)' = Heard(s)
  <2>1. heard'[s] = heard[s]
    BY <1>2, <1>6 DEF Types
  <2> QED BY <2>1 DEF Heard, Channel!Latest
<1> QED BY <1>3, <1>5, <1>6

\* The row that is next is the first its settlement has not marked: the stream
\* has it already, or has the one before it.
LEMMA NextIsDue ==
  ASSUME OInv, NEW e, IsNext(e)
  PROVE  /\ e \in Event /\ e.sid \in Settlements
         /\ e.n \in 1 .. Len(stamps[e.sid])
         /\ \A n \in 1 .. e.n - 1 : [sid |-> e.sid, n |-> n] \in marked
         /\ Heard(e.sid) \in {e.n - 1, e.n}
<1> USE DEF OInv
<1>1. e \in Committed /\ e \notin marked /\ e \in relay.batch
  BY DEF IsNext, BatchFromTheFirst, Unpublished
<1>2. e \in Event /\ e.sid \in Settlements /\ e.n \in 1 .. Len(stamps[e.sid])
  BY <1>1, CommittedEvent DEF Event
<1>3. /\ stamps[e.sid] \in [1 .. Len(stamps[e.sid]) -> Nat]
      /\ DOMAIN stamps[e.sid] = 1 .. Len(stamps[e.sid]) /\ Len(stamps[e.sid]) \in Nat
  BY <1>2, LenProperties DEF Types
<1>4. ASSUME NEW n \in 1 .. e.n - 1 PROVE [sid |-> e.sid, n |-> n] \in marked
  <2> DEFINE f == [sid |-> e.sid, n |-> n]
  <2>1. n \in DOMAIN stamps[e.sid] /\ e.n \in DOMAIN stamps[e.sid] /\ n < e.n
    BY <1>2, <1>3
  <2>2. stamps[e.sid][n] < stamps[e.sid][e.n]
    BY <1>2, <2>1 DEF InOrder
  <2>3. stamps[e.sid][n] \in Nat /\ stamps[e.sid][e.n] \in Nat
    BY <1>3, <2>1
  <2>4. ~ (CreatedAt(e) <= CreatedAt(f))
    BY <2>2, <2>3 DEF CreatedAt
  <2>5. f \notin relay.batch
    BY <2>4 DEF IsNext
  <2>6. f \in marked \cup relay.batch
    BY <1>1 DEF BatchFromTheFirst
  <2> QED BY <2>5, <2>6
<1>5. Heard(e.sid) \in 0 .. Len(stamps[e.sid])
  BY <1>2 DEF Abreast
<1>6. e.n - 1 <= Heard(e.sid)
  <2>1. CASE e.n = 1
    BY <2>1, <1>5
  <2>2. CASE e.n # 1
    <3> DEFINE f == [sid |-> e.sid, n |-> e.n - 1]
    <3>1. e.n - 1 \in 1 .. e.n - 1
      BY <1>2, <1>3, <2>2
    <3>2. f \in marked
      BY <1>4, <3>1
    <3>3. f.n <= Heard(e.sid)
      BY <3>2, <1>2 DEF Abreast
    <3> QED BY <3>3
  <2> QED BY <2>1, <2>2
<1>7. Heard(e.sid) <= e.n
  <2> SUFFICES ASSUME ~ (Heard(e.sid) <= e.n) PROVE FALSE
    OBVIOUS
  <2>1. e.n \in 1 .. Heard(e.sid) - 1
    BY <1>2, <1>3, <1>5
  <2>2. [sid |-> e.sid, n |-> e.n] \in marked
    BY <1>2, <2>1 DEF Abreast
  <2>3. e = [sid |-> e.sid, n |-> e.n]
    BY <1>2 DEF Event
  <2> QED BY <1>1, <2>2, <2>3
<1>8. Heard(e.sid) \in {e.n - 1, e.n}
  BY <1>2, <1>3, <1>5, <1>6, <1>7
<1> QED BY <1>2, <1>4, <1>8

\* Taking the oldest rows leaves no older one behind.
LEMMA FirstOfIsClosed ==
  ASSUME Types, IsFiniteSet(Committed),
         NEW e \in FirstOf(Unpublished), NEW f \in Unpublished, CreatedAt(f) < CreatedAt(e)
  PROVE  f \in FirstOf(Unpublished)
<1> DEFINE Below(g) == {h \in Unpublished : CreatedAt(h) < CreatedAt(g)}
<1>1. IsFiniteSet(Unpublished)
  BY FS_Subset DEF Unpublished
<1>2. IsFiniteSet(Below(e))
  BY <1>1, FS_Subset
<1>3. ASSUME NEW g \in Unpublished PROVE CreatedAt(g) \in Nat
  <2>1. g \in Event /\ g.n \in 1 .. Len(stamps[g.sid])
    BY CommittedEvent DEF Unpublished
  <2>2. stamps[g.sid] \in Seq(Nat)
    BY <2>1 DEF Types, Event
  <2> QED BY <2>1, <2>2 DEF CreatedAt
<1>4. e \in Unpublished
  BY DEF FirstOf
<1>5. Below(f) \subseteq Below(e)
  BY <1>3, <1>4
<1>6. Cardinality(Below(f)) <= Cardinality(Below(e))
  BY <1>2, <1>5, FS_Subset
<1>7. Cardinality(Below(e)) \in Nat /\ Cardinality(Below(f)) \in Nat
  BY <1>2, <1>5, FS_Subset, FS_CardinalityType
<1>8. Cardinality(Below(e)) < BatchSize
  BY DEF FirstOf
<1>9. Cardinality(Below(f)) < BatchSize
  BY <1>6, <1>7, <1>8, OutboxAssumption
<1> QED BY <1>9 DEF FirstOf

----------------------------------------------------------------------------
(* Every step keeps the invariant. *)

LEMMA InitOInv == OutboxInit => OInv
<1> SUFFICES ASSUME OutboxInit PROVE OInv
  OBVIOUS
<1> USE DEF OutboxInit
<1>1. \A s \in Settlements : stamps[s] = <<>> /\ heard[s] = <<>> /\ stamped[s] = Null
  OBVIOUS
<1>2. Types
  BY EmptySeq DEF Types, RelayIdle
<1>3. \A s \in Settlements : DOMAIN stamps[s] = {} /\ Len(stamps[s]) = 0
  BY <1>1
<1>4. Committed = {}
  BY <1>3 DEF Committed
<1>5. \A s \in Settlements : Heard(s) = 0
  BY <1>1 DEF Heard, Channel!Latest
<1>6. InOrder
  BY <1>1, <1>3 DEF InOrder
<1>7. Abreast
  BY <1>3, <1>5 DEF Abreast
<1>8. BatchFromTheFirst
  BY <1>4, FS_EmptySet DEF BatchFromTheFirst, RelayIdle
<1>9. MarkedIsHeard
  BY DEF MarkedIsHeard
<1> QED BY <1>2, <1>6, <1>7, <1>8, <1>9 DEF OInv

\* What depends on the marks, the stream and the batch only.
LEMMA SameStream ==
  ASSUME OInv, UNCHANGED <<stamps, marked, heard, relay>>
  PROVE  Abreast' /\ BatchFromTheFirst' /\ MarkedIsHeard'
<1>1. \A s \in Settlements : Heard(s)' = Heard(s)
  BY DEF Heard, Channel!Latest
<1>2. Abreast'
  BY <1>1 DEF OInv, Abreast
<1>3. Committed' = Committed /\ Unpublished' = Unpublished
  BY DEF Committed, Unpublished
<1>4. Heard(relay.row.sid)' = Heard(relay.row.sid)
  BY DEF Heard, Channel!Latest
<1>5. BatchFromTheFirst'
  BY <1>3, <1>4 DEF OInv, BatchFromTheFirst
<1>6. MarkedIsHeard'
  BY DEF OInv, MarkedIsHeard
<1> QED BY <1>2, <1>5, <1>6

LEMMA StampKeeps ==
  ASSUME OInv, NEW s \in Settlements, Stamp(s)
  PROVE  OInv'
<1> USE DEF Stamp
<1>1. Types /\ InOrder
  BY DEF OInv
<1>2. clock' = clock + 1 /\ clock \in Nat /\ stamped' = [stamped EXCEPT ![s] = clock]
  BY <1>1 DEF Types
<1>3. Types'
  BY <1>1, <1>2 DEF Types
<1>4. ASSUME NEW t \in Settlements
      PROVE  /\ \A k \in DOMAIN stamps[t] : stamps[t][k] \in Nat /\ stamps[t][k] < clock
             /\ stamped[t] # Null => stamped[t] \in Nat /\ stamped[t] < clock
             /\ stamped'[t] = IF t = s THEN clock ELSE stamped[t]
  <2>1. stamps[t] \in [1 .. Len(stamps[t]) -> Nat] /\ DOMAIN stamps[t] = 1 .. Len(stamps[t])
    BY <1>1, LenProperties DEF Types
  <2> QED BY <1>1, <1>2, <2>1 DEF Types, InOrder
<1>5. InOrder'
  BY <1>1, <1>2, <1>4 DEF InOrder
<1> QED BY <1>3, <1>5, SameStream DEF OInv

LEMMA StampsDropped ==
  ASSUME OInv, UNCHANGED <<clock, stamps>>, stamped' \in [Settlements -> Nat \cup {Null}],
         \A s \in Settlements : stamped'[s] \in {stamped[s], Null}
  PROVE  InOrder'
<1>1. InOrder
  BY DEF OInv
<1>2. \A s \in Settlements : stamped'[s] # Null => stamped'[s] = stamped[s]
  OBVIOUS
<1> QED BY <1>1, <1>2 DEF InOrder

LEMMA RollbackKeeps ==
  ASSUME OInv, NEW s \in Settlements, Rollback(s)
  PROVE  OInv'
<1> USE DEF Rollback
<1>1. Types
  BY DEF OInv
<1>2. Types' /\ \A t \in Settlements : stamped'[t] \in {stamped[t], Null}
  BY <1>1 DEF Types
<1>3. stamped' \in [Settlements -> Nat \cup {Null}]
  BY <1>2 DEF Types
<1>4. InOrder'
  BY <1>2, <1>3, StampsDropped
<1> QED BY <1>2, <1>4, SameStream DEF OInv

\* A committed event is younger than those its settlement committed before it.
LEMMA CommitKeeps ==
  ASSUME OInv, NEW s \in Settlements, Commit(s)
  PROVE  OInv'
<1> USE DEF Commit
<1>1. Types /\ InOrder /\ Abreast /\ BatchFromTheFirst /\ MarkedIsHeard
  BY DEF OInv
<1> DEFINE new == [sid |-> s, n |-> Len(stamps[s]) + 1]
<1>2. /\ stamped[s] \in Nat /\ stamps[s] \in Seq(Nat) /\ Len(stamps[s]) \in Nat
      /\ stamps'[s] = Append(stamps[s], stamped[s])
      /\ stamps' \in [Settlements -> Seq(Nat)]
      /\ \A t \in Settlements : t # s => stamps'[t] = stamps[t]
  BY <1>1 DEF Types
<1>3. stamped' \in [Settlements -> Nat \cup {Null}] /\ stamped'[s] = Null
      /\ \A t \in Settlements : t # s => stamped'[t] = stamped[t]
  BY <1>1 DEF Types
<1>4. Types'
  BY <1>1, <1>2, <1>3 DEF Types
<1>5. /\ DOMAIN stamps'[s] = 1 .. Len(stamps[s]) + 1 /\ Len(stamps'[s]) = Len(stamps[s]) + 1
      /\ \A k \in 1 .. Len(stamps[s]) : stamps'[s][k] = stamps[s][k]
      /\ stamps'[s][Len(stamps[s]) + 1] = stamped[s]
  BY <1>2, AppendProperties, LenProperties
<1>6. /\ DOMAIN stamps[s] = 1 .. Len(stamps[s])
      /\ \A k \in 1 .. Len(stamps[s]) : stamps[s][k] \in Nat
  BY <1>2, LenProperties
<1>7. /\ \A k \in 1 .. Len(stamps[s]) : stamps[s][k] < clock /\ stamps[s][k] < stamped[s]
      /\ stamped[s] < clock
      /\ \A j, k \in 1 .. Len(stamps[s]) : j < k => stamps[s][j] < stamps[s][k]
  BY <1>1, <1>6 DEF InOrder
<1>8. InOrder'
  <2> SUFFICES ASSUME NEW t \in Settlements
               PROVE  /\ \A k \in DOMAIN stamps'[t] : stamps'[t][k] < clock
                      /\ stamped'[t] # Null =>
                           /\ stamped'[t] < clock
                           /\ \A k \in DOMAIN stamps'[t] : stamps'[t][k] < stamped'[t]
                      /\ \A j, k \in DOMAIN stamps'[t] : j < k => stamps'[t][j] < stamps'[t][k]
    BY DEF InOrder
  <2>1. CASE t # s
    BY <1>1, <1>2, <1>3, <2>1 DEF InOrder
  <2>2. CASE t = s
    <3>1. \A k \in 1 .. Len(stamps[s]) + 1 : k \in 1 .. Len(stamps[s]) \/ k = Len(stamps[s]) + 1
      BY <1>2
    <3>2. \A k \in DOMAIN stamps'[s] : stamps'[s][k] < clock
      BY <1>5, <1>7, <3>1
    <3>3. ASSUME NEW j \in DOMAIN stamps'[s], NEW k \in DOMAIN stamps'[s], j < k
          PROVE  stamps'[s][j] < stamps'[s][k]
      <4>1. j \in 1 .. Len(stamps[s])
        BY <1>2, <1>5, <3>3
      <4>2. CASE k \in 1 .. Len(stamps[s])
        BY <1>5, <1>7, <3>3, <4>1, <4>2
      <4>3. CASE k = Len(stamps[s]) + 1
        BY <1>5, <1>7, <4>1, <4>3
      <4> QED BY <1>5, <3>1, <4>2, <4>3
    <3> QED BY <1>3, <2>2, <3>2, <3>3
  <2> QED BY <2>1, <2>2
<1>9. \A t \in Settlements : Heard(t)' = Heard(t)
  BY DEF Heard, Channel!Latest
<1>10. Abreast'
  <2>1. \A t \in Settlements : Len(stamps[t]) \in Nat /\ Len(stamps'[t]) \in Nat
    BY <1>1, <1>2 DEF Types
  <2>2. \A t \in Settlements : Len(stamps[t]) <= Len(stamps'[t])
    BY <1>2, <1>5, <2>1
  <2>3. \A t \in Settlements : Heard(t) \in 0 .. Len(stamps'[t])
    BY <1>1, <2>1, <2>2 DEF Abreast
  <2> QED BY <1>1, <1>9, <2>3 DEF Abreast
<1>11. Committed' = Committed \cup {new}
  <2>1. DOMAIN stamps'[s] = DOMAIN stamps[s] \cup {Len(stamps[s]) + 1}
    <3>1. 1 .. Len(stamps[s]) + 1 = 1 .. Len(stamps[s]) \cup {Len(stamps[s]) + 1}
      BY <1>2
    <3> QED BY <1>5, <1>6, <3>1
  <2>2. \A t \in Settlements : t # s => DOMAIN stamps'[t] = DOMAIN stamps[t]
    BY <1>2
  <2>3. \A t \in Settlements : \A k \in DOMAIN stamps'[t] : [sid |-> t, n |-> k] \in Committed'
    BY DEF Committed
  <2>4. new \in Committed'
    BY <2>1, <2>3
  <2>5. ASSUME NEW e \in Committed PROVE e \in Committed'
    <3>0. PICK t \in Settlements : \E k \in DOMAIN stamps[t] : e = [sid |-> t, n |-> k]
      BY DEF Committed
    <3>1. PICK k \in DOMAIN stamps[t] : e = [sid |-> t, n |-> k]
      BY <3>0
    <3>2. k \in DOMAIN stamps'[t]
      BY <2>1, <2>2, <3>1
    <3> QED BY <2>3, <3>1, <3>2
  <2>6. ASSUME NEW e \in Committed' PROVE e \in Committed \cup {new}
    <3>0. PICK t \in Settlements : \E k \in DOMAIN stamps'[t] : e = [sid |-> t, n |-> k]
      BY DEF Committed
    <3>1. PICK k \in DOMAIN stamps'[t] : e = [sid |-> t, n |-> k]
      BY <3>0
    <3>2. CASE k \in DOMAIN stamps[t]
      <4>1. [sid |-> t, n |-> k] \in {[sid |-> t, n |-> j] : j \in DOMAIN stamps[t]}
        BY <3>2
      <4> QED BY <3>1, <4>1 DEF Committed
    <3>3. CASE k \notin DOMAIN stamps[t]
      <4>1. t = s /\ k = Len(stamps[s]) + 1
        BY <2>1, <2>2, <3>1, <3>3
      <4> QED BY <3>1, <4>1
    <3> QED BY <3>2, <3>3
  <2> QED BY <2>4, <2>5, <2>6
<1>12. IsFiniteSet(Committed')
  BY <1>1, <1>11, FS_AddElement DEF BatchFromTheFirst
<1>13. relay'.batch \subseteq Committed' \ marked'
  BY <1>1, <1>11 DEF BatchFromTheFirst, Unpublished
<1>14. Heard(relay.row.sid)' = Heard(relay.row.sid)
  BY DEF Heard, Channel!Latest
<1>15. BatchFromTheFirst'
  BY <1>1, <1>12, <1>13, <1>14 DEF BatchFromTheFirst, Unpublished
<1>16. MarkedIsHeard'
  BY <1>1 DEF MarkedIsHeard
<1> QED BY <1>4, <1>8, <1>10, <1>15, <1>16 DEF OInv

\* The oldest unpublished rows: nothing of their settlements is left behind.
LEMMA TickKeeps ==
  ASSUME OInv, Tick
  PROVE  OInv'
<1> USE DEF Tick, producerVars
<1>1. Types /\ InOrder /\ Abreast /\ BatchFromTheFirst /\ MarkedIsHeard
  BY DEF OInv
<1>2. relay' = [pc |-> "publish", batch |-> FirstOf(Unpublished), row |-> Null]
  BY DEF RelayIdle
<1>3. FirstOf(Unpublished) \subseteq Unpublished
  BY DEF FirstOf
<1>4. Unpublished \subseteq Event
  BY <1>1, CommittedEvent DEF Unpublished
<1>5. Types'
  BY <1>1, <1>2, <1>3, <1>4 DEF Types
<1>6. InOrder'
  BY <1>1 DEF InOrder
<1>7. \A s \in Settlements : Heard(s)' = Heard(s)
  BY DEF Heard, Channel!Latest
<1>8. Abreast'
  BY <1>1, <1>7 DEF Abreast
<1>9. Committed' = Committed /\ Unpublished' = Unpublished
  BY DEF Committed, Unpublished
<1>10. ASSUME NEW e \in FirstOf(Unpublished), NEW n \in 1 .. e.n - 1
       PROVE  [sid |-> e.sid, n |-> n] \in marked \cup FirstOf(Unpublished)
  <2> DEFINE f == [sid |-> e.sid, n |-> n]
  <2>1. e \in Event /\ e.sid \in Settlements /\ e.n \in 1 .. Len(stamps[e.sid])
    BY <1>1, <1>3, CommittedEvent DEF Unpublished, Event
  <2>2. /\ DOMAIN stamps[e.sid] = 1 .. Len(stamps[e.sid]) /\ Len(stamps[e.sid]) \in Nat
    BY <1>1, <2>1, LenProperties DEF Types
  <2>3. n \in 1 .. Len(stamps[e.sid]) /\ n < e.n /\ n \in Nat
    BY <2>1, <2>2
  <2>4. f \in Committed
    BY <1>1, <2>1, <2>3, CommittedEvent DEF Event
  <2>5. stamps[e.sid][n] < stamps[e.sid][e.n]
    BY <1>1, <2>1, <2>2, <2>3 DEF InOrder
  <2>6. CreatedAt(f) < CreatedAt(e)
    BY <2>5 DEF CreatedAt
  <2>7. CASE f \in marked
    BY <2>7
  <2>8. CASE f \notin marked
    <3>1. f \in Unpublished
      BY <2>4, <2>8 DEF Unpublished
    <3> HIDE DEF f
    <3>2. f \in FirstOf(Unpublished)
      BY <1>1, <2>6, <3>1, FirstOfIsClosed DEF BatchFromTheFirst
    <3> QED BY <3>2 DEF f
  <2> QED BY <2>7, <2>8
<1>11. BatchFromTheFirst'
  BY <1>1, <1>2, <1>3, <1>9, <1>10 DEF BatchFromTheFirst
<1>12. MarkedIsHeard'
  BY <1>1 DEF MarkedIsHeard
<1> QED BY <1>5, <1>6, <1>8, <1>11, <1>12 DEF OInv

\* A delivery of the row that is next, whatever becomes of the run.
LEMMA DeliverKeeps ==
  ASSUME OInv, NEW e, IsNext(e), Deliver(e), UNCHANGED <<producerVars, marked>>
  PROVE  /\ heard' \in [Settlements -> Seq(Nat)]
         /\ InOrder' /\ Abreast' /\ MarkedIsHeard'
         /\ Committed' = Committed /\ Unpublished' = Unpublished
         /\ Heard(e.sid)' = e.n
<1> USE DEF producerVars
<1>1. Types /\ InOrder /\ Abreast /\ BatchFromTheFirst /\ MarkedIsHeard
  BY DEF OInv
<1>2. /\ e \in Event /\ e.sid \in Settlements
      /\ e.n \in 1 .. Len(stamps[e.sid])
      /\ \A n \in 1 .. e.n - 1 : [sid |-> e.sid, n |-> n] \in marked
      /\ Heard(e.sid) \in {e.n - 1, e.n}
  BY NextIsDue
<1>3. /\ heard' \in [Settlements -> Seq(Nat)]
      /\ heard'[e.sid] = Append(heard[e.sid], e.n)
      /\ Heard(e.sid)' = e.n
      /\ \A s \in Settlements : s # e.sid => heard'[s] = heard[s] /\ Heard(s)' = Heard(s)
  BY <1>1, <1>2, HeardAfter
<1>4. InOrder'
  BY <1>1 DEF InOrder
<1>5. Abreast'
  <2> SUFFICES ASSUME NEW s \in Settlements
               PROVE  /\ Heard(s)' \in 0 .. Len(stamps[s])
                      /\ \A n \in 1 .. Heard(s)' - 1 : [sid |-> s, n |-> n] \in marked
                      /\ \A f \in marked : f.sid = s => f.n <= Heard(s)'
    BY DEF Abreast
  <2>1. CASE s # e.sid
    BY <1>1, <1>3, <2>1 DEF Abreast
  <2>2. CASE s = e.sid
    <3>1. Len(stamps[s]) \in Nat
      BY <1>1 DEF Types
    <3>2. e.n \in 0 .. Len(stamps[s])
      BY <1>2, <2>2, <3>1
    <3>3. ASSUME NEW f \in marked, f.sid = s PROVE f.n <= e.n
      <4>1. f.n <= Heard(s) /\ f.n \in Nat
        BY <1>1, <3>3 DEF Abreast, Types, Event
      <4> QED BY <1>2, <2>2, <3>1, <4>1
    <3> QED BY <1>2, <1>3, <2>2, <3>2, <3>3
  <2> QED BY <2>1, <2>2
<1>6. MarkedIsHeard'
  <2> SUFFICES ASSUME NEW f \in marked
               PROVE  \E k \in DOMAIN heard'[f.sid] : heard'[f.sid][k] = f.n
    BY DEF MarkedIsHeard
  <2>1. f.sid \in Settlements /\ heard[f.sid] \in Seq(Nat)
    BY <1>1 DEF Types, Event
  <2>2. PICK k \in DOMAIN heard[f.sid] : heard[f.sid][k] = f.n
    BY <1>1 DEF MarkedIsHeard
  <2>3. CASE f.sid # e.sid
    BY <1>3, <2>1, <2>2, <2>3
  <2>4. CASE f.sid = e.sid
    <3>1. e.n \in Nat
      BY <1>2 DEF Event
    <3>2. k \in 1 .. Len(heard[f.sid]) /\ Len(heard[f.sid]) \in Nat
      BY <2>1, <2>2, LenProperties
    <3>3. Append(heard[f.sid], e.n)[k] = f.n
      BY <2>1, <2>2, <3>1, <3>2, AppendProperties
    <3>4. k \in DOMAIN Append(heard[f.sid], e.n)
      BY <2>1, <3>1, <3>2, AppendProperties, LenProperties
    <3> QED BY <1>3, <2>4, <3>3, <3>4
  <2> QED BY <2>3, <2>4
<1>7. Committed' = Committed /\ Unpublished' = Unpublished
  BY DEF Committed, Unpublished
<1> QED BY <1>3, <1>4, <1>5, <1>6, <1>7

LEMMA PublishKeeps ==
  ASSUME OInv, NEW e, Publish(e)
  PROVE  OInv'
<1>1. /\ Types /\ BatchFromTheFirst
      /\ e \in relay.batch /\ e \in Event
      /\ relay \in [pc : {"idle", "publish", "mark"}, batch : SUBSET Event, row : Event \cup {Null}]
  BY DEF OInv, Types, Publish, IsNext
<1>2. /\ heard' \in [Settlements -> Seq(Nat)]
      /\ InOrder' /\ Abreast' /\ MarkedIsHeard'
      /\ Committed' = Committed /\ Unpublished' = Unpublished
      /\ Heard(e.sid)' = e.n
  BY DeliverKeeps DEF Publish
<1>3. relay' = [pc |-> "mark", batch |-> relay.batch, row |-> e]
  BY <1>1 DEF Publish
<1>4. Types'
  BY <1>1, <1>2, <1>3 DEF Types, Publish, producerVars
<1>5. relay'.row = e /\ Heard(relay.row.sid)' = relay'.row.n
  BY <1>2, <1>3 DEF Heard, Channel!Latest
<1>6. BatchFromTheFirst'
  BY <1>1, <1>2, <1>3, <1>5 DEF BatchFromTheFirst, Publish
<1> QED BY <1>2, <1>4, <1>6 DEF OInv

LEMMA PublishResentKeeps ==
  ASSUME OInv, NEW e, PublishResent(e)
  PROVE  OInv'
<1>1. Types /\ BatchFromTheFirst
  BY DEF OInv
<1>2. /\ heard' \in [Settlements -> Seq(Nat)]
      /\ InOrder' /\ Abreast' /\ MarkedIsHeard'
      /\ Committed' = Committed /\ Unpublished' = Unpublished
  BY DeliverKeeps DEF PublishResent
<1>3. relay' = relay /\ marked' = marked /\ relay.pc = "publish"
  BY DEF PublishResent
<1>4. Types'
  BY <1>1, <1>2, <1>3 DEF Types, PublishResent, producerVars
<1>5. BatchFromTheFirst'
  BY <1>1, <1>2, <1>3 DEF BatchFromTheFirst
<1> QED BY <1>2, <1>4, <1>5 DEF OInv

\* A run that ends leaves an empty batch.
LEMMA IdleBatch ==
  ASSUME relay' = RelayIdle, Committed' = Committed, IsFiniteSet(Committed)
  PROVE  BatchFromTheFirst'
BY DEF BatchFromTheFirst, RelayIdle

LEMMA PublishFailsKeeps ==
  ASSUME OInv, NEW e, PublishFails(e)
  PROVE  OInv'
<1>1. Types /\ InOrder /\ Abreast /\ MarkedIsHeard /\ IsFiniteSet(Committed)
  BY DEF OInv, BatchFromTheFirst
<1>2. relay' = RelayIdle /\ UNCHANGED <<producerVars, marked>>
  BY DEF PublishFails
<1>3. heard' \in [Settlements -> Seq(Nat)] /\ InOrder' /\ Abreast' /\ MarkedIsHeard'
  <2>1. CASE Deliver(e)
    BY <2>1, DeliverKeeps DEF PublishFails
  <2>2. CASE UNCHANGED heard
    <3>1. \A s \in Settlements : Heard(s)' = Heard(s)
      BY <2>2 DEF Heard, Channel!Latest
    <3>2. heard' \in [Settlements -> Seq(Nat)] /\ InOrder'
      BY <1>1, <1>2, <2>2 DEF Types, InOrder, producerVars
    <3>3. Abreast'
      BY <1>1, <1>2, <3>1 DEF Abreast, producerVars
    <3>4. MarkedIsHeard'
      BY <1>1, <1>2, <2>2 DEF MarkedIsHeard
    <3> QED BY <3>2, <3>3, <3>4
  <2> QED BY <2>1, <2>2 DEF PublishFails
<1>4. Types'
  BY <1>1, <1>2, <1>3 DEF Types, producerVars, RelayIdle
<1>5. Committed' = Committed
  BY <1>2 DEF Committed, producerVars
<1> QED BY <1>1, <1>2, <1>3, <1>4, <1>5, IdleBatch DEF OInv

\* The mark of the row that was published.
LEMMA MarkedRow ==
  ASSUME OInv, NEW e, relay.pc = "mark", e = relay.row,
         marked' = marked \cup {e}, UNCHANGED <<producerVars, heard>>
  PROVE  /\ e \in Event /\ marked' \subseteq Event
         /\ InOrder' /\ Abreast' /\ MarkedIsHeard'
         /\ Committed' = Committed
<1> USE DEF producerVars
<1>1. Types /\ InOrder /\ Abreast /\ BatchFromTheFirst /\ MarkedIsHeard
  BY DEF OInv
<1>2. e \in relay.batch /\ Heard(e.sid) = e.n
  BY <1>1 DEF BatchFromTheFirst
<1>3. e \in Committed
  BY <1>1, <1>2 DEF BatchFromTheFirst, Unpublished
<1>4. e \in Event /\ e.sid \in Settlements /\ e.n \in 1 .. Len(stamps[e.sid]) /\ e.n \in Nat
  BY <1>1, <1>3, CommittedEvent DEF Event
<1>5. marked' \subseteq Event
  BY <1>1, <1>4 DEF Types
<1>6. InOrder'
  BY <1>1 DEF InOrder
<1>7. \A s \in Settlements : Heard(s)' = Heard(s)
  BY DEF Heard, Channel!Latest
<1>8. Abreast'
  <2> SUFFICES ASSUME NEW s \in Settlements
               PROVE  /\ Heard(s) \in 0 .. Len(stamps[s])
                      /\ \A n \in 1 .. Heard(s) - 1 : [sid |-> s, n |-> n] \in marked'
                      /\ \A f \in marked' : f.sid = s => f.n <= Heard(s)
    BY <1>7 DEF Abreast
  <2>1. e.sid = s => e.n <= Heard(s)
    BY <1>2, <1>4
  <2> QED BY <1>1, <2>1 DEF Abreast
<1>9. MarkedIsHeard'
  <2>1. heard[e.sid] \in Seq(Nat) /\ heard[e.sid] # <<>> /\ e.n = heard[e.sid][Len(heard[e.sid])]
    BY <1>1, <1>2, <1>4, HeardType DEF Types
  <2>2. Len(heard[e.sid]) \in DOMAIN heard[e.sid]
    BY <2>1, EmptySeq, LenProperties
  <2> QED BY <1>1, <2>1, <2>2 DEF MarkedIsHeard
<1>10. Committed' = Committed
  BY DEF Committed
<1> QED BY <1>4, <1>5, <1>6, <1>8, <1>9, <1>10

LEMMA MarkKeeps ==
  ASSUME OInv, NEW e, Mark(e)
  PROVE  OInv'
<1> USE DEF Mark
<1>1. Types /\ BatchFromTheFirst
  BY DEF OInv
<1>2. /\ e \in Event /\ marked' \subseteq Event
      /\ InOrder' /\ Abreast' /\ MarkedIsHeard'
      /\ Committed' = Committed
  BY MarkedRow
<1>3. CASE relay.batch = {e}
  <2>1. relay' = RelayIdle
    BY <1>3 DEF RowDone
  <2>2. Types'
    BY <1>1, <1>2, <2>1 DEF Types, producerVars, RelayIdle
  <2>3. BatchFromTheFirst'
    BY <1>1, <1>2, <2>1, IdleBatch DEF BatchFromTheFirst
  <2> QED BY <1>2, <2>2, <2>3 DEF OInv
<1>4. CASE relay.batch # {e}
  <2>1. relay' = [pc |-> "publish", batch |-> relay.batch \ {e}, row |-> Null]
    BY <1>4 DEF RowDone, RelayIdle
  <2>2. Types'
    BY <1>1, <1>2, <2>1 DEF Types, producerVars
  <2>3. relay'.batch \subseteq Committed' \ marked'
    BY <1>1, <1>2, <2>1 DEF BatchFromTheFirst, Unpublished
  <2>4. ASSUME NEW f \in relay'.batch, NEW n \in 1 .. f.n - 1
        PROVE  [sid |-> f.sid, n |-> n] \in marked' \cup relay'.batch
    <3>1. f \in relay.batch
      BY <2>1
    <3>2. [sid |-> f.sid, n |-> n] \in marked \cup relay.batch
      BY <1>1, <3>1 DEF BatchFromTheFirst
    <3> QED BY <2>1, <3>2
  <2>5. BatchFromTheFirst'
    BY <1>1, <1>2, <2>1, <2>3, <2>4 DEF BatchFromTheFirst, Unpublished
  <2> QED BY <1>2, <2>2, <2>5 DEF OInv
<1> QED BY <1>3, <1>4

LEMMA MarkFailsKeeps ==
  ASSUME OInv, NEW e, MarkFails(e)
  PROVE  OInv'
<1>1. Types /\ InOrder /\ Abreast /\ MarkedIsHeard /\ IsFiniteSet(Committed)
  BY DEF OInv, BatchFromTheFirst
<1>2. /\ relay' = RelayIdle /\ relay.pc = "mark" /\ e = relay.row
      /\ UNCHANGED <<producerVars, heard>> /\ marked' \in {marked, marked \cup {e}}
  BY DEF MarkFails
<1>3. marked' \subseteq Event /\ InOrder' /\ Abreast' /\ MarkedIsHeard' /\ Committed' = Committed
  <2>1. CASE marked' = marked \cup {e}
    BY <1>2, <2>1, MarkedRow
  <2>2. CASE marked' = marked
    <3>1. \A s \in Settlements : Heard(s)' = Heard(s)
      BY <1>2 DEF Heard, Channel!Latest
    <3>2. marked' \subseteq Event /\ InOrder' /\ MarkedIsHeard' /\ Committed' = Committed
      BY <1>1, <1>2, <2>2 DEF Types, InOrder, MarkedIsHeard, Committed, producerVars
    <3>3. Abreast'
      BY <1>1, <1>2, <2>2, <3>1 DEF Abreast, producerVars
    <3> QED BY <3>2, <3>3
  <2> QED BY <1>2, <2>1, <2>2
<1>4. Types'
  BY <1>1, <1>2, <1>3 DEF Types, producerVars, RelayIdle
<1> QED BY <1>1, <1>2, <1>3, <1>4, IdleBatch DEF OInv

LEMMA ExitKeeps ==
  ASSUME OInv, Exit
  PROVE  OInv'
<1> USE DEF Exit
<1>1. Types /\ InOrder /\ Abreast /\ MarkedIsHeard /\ IsFiniteSet(Committed)
  BY DEF OInv, BatchFromTheFirst
<1>2. stamped' \in [Settlements -> Nat \cup {Null}] /\ \A s \in Settlements : stamped'[s] = Null
  OBVIOUS
<1>3. InOrder'
  BY <1>2, StampsDropped
<1>4. Types'
  BY <1>1, <1>2 DEF Types, RelayIdle
<1>5. \A s \in Settlements : Heard(s)' = Heard(s)
  BY DEF Heard, Channel!Latest
<1>6. Abreast' /\ MarkedIsHeard' /\ Committed' = Committed
  BY <1>1, <1>5 DEF Abreast, MarkedIsHeard, Committed
<1> QED BY <1>1, <1>3, <1>4, <1>6, IdleBatch DEF OInv

LEMMA StepKeeps == OInv /\ [OutboxNext]_outboxVars => OInv'
<1> SUFFICES ASSUME OInv, [OutboxNext]_outboxVars PROVE OInv'
  OBVIOUS
<1>1. CASE Produce
  BY <1>1, StampKeeps, CommitKeeps, RollbackKeeps DEF Produce
<1>2. CASE Relay
  BY <1>2, TickKeeps, PublishKeeps, PublishFailsKeeps, PublishResentKeeps, MarkKeeps, MarkFailsKeeps
     DEF Relay
<1>3. CASE Exit
  BY <1>3, ExitKeeps
<1>4. CASE UNCHANGED outboxVars
  <2>1. UNCHANGED <<clock, stamped, stamps, marked, heard, relay>>
    BY <1>4 DEF outboxVars, producerVars
  <2>2. Types' /\ InOrder'
    BY <2>1 DEF OInv, Types, InOrder
  <2> QED BY <2>1, <2>2, SameStream DEF OInv
<1> QED BY <1>1, <1>2, <1>3, <1>4 DEF OutboxNext

LEMMA Invariant == OutboxSpec => []OInv
<1>1. OutboxInit => OInv
  BY InitOInv
<1>2. OInv /\ [OutboxNext]_outboxVars => OInv'
  BY StepKeeps
<1> QED BY <1>1, <1>2, PTL DEF OutboxSpec

\* Nothing is marked published that the stream does not hold (outbox.relay.ts
\* marks after it published).
THEOREM MarksAreHeard == OutboxSpec => []MarkedIsHeard
<1>1. OInv => MarkedIsHeard
  BY DEF OInv
<1> QED BY <1>1, Invariant, PTL

----------------------------------------------------------------------------
(* The outbox implements the channel. *)

\* A delivery of the row that is next is a next event, or the last one again.
LEMMA DeliverIsHearing ==
  ASSUME OInv, NEW e, IsNext(e), Deliver(e), UNCHANGED stamps
  PROVE  Channel!ChannelNext
<1>1. Types /\ Abreast
  BY DEF OInv
<1>2. /\ e \in Event /\ e.sid \in Settlements
      /\ e.n \in 1 .. Len(stamps[e.sid])
      /\ Heard(e.sid) \in {e.n - 1, e.n}
  BY NextIsDue
<1>3. heard' = [heard EXCEPT ![e.sid] = Append(@, e.n)]
  BY DEF Deliver
<1>4. Len(stamps[e.sid]) \in Nat /\ e.n \in Nat
  BY <1>1, <1>2 DEF Types, Event
<1>5. [s \in Settlements |-> Len(stamps[s])]' = [s \in Settlements |-> Len(stamps[s])]
  OBVIOUS
<1>6. CASE Heard(e.sid) = e.n - 1
  <2>1. Heard(e.sid) < Len(stamps[e.sid]) /\ Heard(e.sid) + 1 = e.n
    BY <1>2, <1>4, <1>6
  <2>2. Channel!HearNext(e.sid)
    BY <1>2, <1>3, <1>5, <2>1 DEF Channel!HearNext, Heard
  <2> QED BY <1>2, <2>2 DEF Channel!ChannelNext
<1>7. CASE Heard(e.sid) = e.n
  <2>1. heard[e.sid] # <<>>
    BY <1>1, <1>2, <1>4, <1>7, HeardType
  <2>2. Channel!HearAgain(e.sid)
    BY <1>2, <1>3, <1>5, <1>7, <2>1 DEF Channel!HearAgain, Heard
  <2> QED BY <1>2, <2>2 DEF Channel!ChannelNext
<1> QED BY <1>2, <1>6, <1>7

\* A commit announces one more event.
LEMMA CommitIsTelling ==
  ASSUME OInv, NEW s \in Settlements, Commit(s)
  PROVE  Channel!ChannelNext
<1> DEFINE told == [t \in Settlements |-> Len(stamps[t])]
<1>1. Types
  BY DEF OInv
<1>2. /\ stamped[s] \in Nat /\ stamps[s] \in Seq(Nat)
      /\ stamps' = [stamps EXCEPT ![s] = Append(stamps[s], stamped[s])] /\ heard' = heard
  BY <1>1 DEF Types, Commit
<1>3. Len(stamps'[s]) = Len(stamps[s]) + 1 /\ \A t \in Settlements : t # s => stamps'[t] = stamps[t]
  BY <1>1, <1>2, AppendProperties DEF Types
<1>4. told' = [told EXCEPT ![s] = @ + 1]
  BY <1>3
<1>5. Channel!Tell(s)
  BY <1>2, <1>4 DEF Channel!Tell
<1> QED BY <1>5 DEF Channel!ChannelNext

LEMMA StepImplements ==
  OInv /\ [OutboxNext]_outboxVars => [Channel!ChannelNext]_(Channel!channelVars)
<1> SUFFICES ASSUME OInv, [OutboxNext]_outboxVars
             PROVE  Channel!ChannelNext \/ UNCHANGED Channel!channelVars
  OBVIOUS
<1>1. ASSUME UNCHANGED <<stamps, heard>> PROVE UNCHANGED Channel!channelVars
  BY <1>1 DEF Channel!channelVars
<1>2. CASE Produce
  <2>1. PICK s \in Settlements : Stamp(s) \/ Commit(s) \/ Rollback(s)
    BY <1>2 DEF Produce
  <2>2. CASE Stamp(s)
    BY <1>1, <2>2 DEF Stamp
  <2>3. CASE Commit(s)
    BY <2>3, CommitIsTelling
  <2>4. CASE Rollback(s)
    BY <1>1, <2>4 DEF Rollback
  <2> QED BY <2>1, <2>2, <2>3, <2>4
<1>3. CASE Relay
  <2>1. CASE Tick
    BY <1>1, <2>1 DEF Tick, producerVars
  <2>2. ASSUME NEW e \in relay.batch, Publish(e) \/ PublishFails(e) \/ PublishResent(e)
        PROVE  Channel!ChannelNext \/ UNCHANGED Channel!channelVars
    <3>1. IsNext(e) /\ UNCHANGED stamps /\ (Deliver(e) \/ UNCHANGED heard)
      BY <2>2 DEF Publish, PublishFails, PublishResent, producerVars
    <3> QED BY <1>1, <3>1, DeliverIsHearing
  <2>3. ASSUME NEW e \in relay.batch, Mark(e) \/ MarkFails(e)
        PROVE  UNCHANGED Channel!channelVars
    BY <1>1, <2>3 DEF Mark, MarkFails, producerVars
  <2> QED BY <1>3, <2>1, <2>2, <2>3 DEF Relay
<1>4. CASE Exit
  BY <1>1, <1>4 DEF Exit
<1>5. CASE UNCHANGED outboxVars
  BY <1>1, <1>5 DEF outboxVars, producerVars
<1> QED BY <1>2, <1>3, <1>4, <1>5 DEF OutboxNext

\* The stream holds the events of each settlement in order and without a gap,
\* each one again only before the next: relay() and transition() as EventChannel.
THEOREM OutboxImplementsChannel == OutboxSpec => ImplementsChannel
<1>1. OutboxInit => Channel!ChannelInit
  BY DEF OutboxInit, Channel!ChannelInit
<1>2. OInv /\ [OutboxNext]_outboxVars => [Channel!ChannelNext]_(Channel!channelVars)
  BY StepImplements
<1> QED BY <1>1, <1>2, Invariant, PTL DEF OutboxSpec, ImplementsChannel, Channel!ChannelSpec

----------------------------------------------------------------------------
(* A batch has at most BatchSize rows. *)

\* No two events share a createdAt.
Distinct ==
  /\ \A e, f \in Committed : CreatedAt(e) = CreatedAt(f) => e = f
  /\ \A s \in Settlements : stamped[s] # Null =>
       /\ \A e \in Committed : CreatedAt(e) # stamped[s]
       /\ \A t \in Settlements \ {s} : stamped[t] # stamped[s]

BatchFits == IsFiniteSet(relay.batch) /\ Cardinality(relay.batch) <= BatchSize

\* The stream holds nothing younger than what it ends with.
HeardUpTo == \A s \in Settlements : \A k \in DOMAIN heard[s] : heard[s][k] <= Heard(s)

\* The last event of s in the stream is not marked and about to be sent again.
Owed(s) ==
  LET e == [sid |-> s, n |-> Heard(s)]
  IN  Heard(s) # 0 /\ e \notin marked /\ (relay.pc = "mark" => relay.row # e)

\* A fault pays for each repetition, before it happens.
Paid ==
  /\ faults <= MaxFaults
  /\ \A s \in Settlements :
       /\ Repeats(s) <= MaxFaults - faults
       /\ Owed(s) => Repeats(s) < MaxFaults - faults

StreamInv == OInv /\ Distinct /\ BatchFits /\ HeardUpTo /\ faults \in Nat /\ Paid

LEMMA HasYoungest ==
  ASSUME NEW S, IsFiniteSet(S), NEW c \in [S -> Nat], S # {}
  PROVE  \E m \in S : \A f \in S : c[f] <= c[m]
<1>. DEFINE Q == {t \in SUBSET S : t # {} => \E m \in t : \A f \in t : c[f] <= c[m]}
<1>1. ASSUME NEW t \in SUBSET S, \A u \in SUBSET t : u # t => u \in Q PROVE t \in Q
  <2>1. CASE t = {} BY <2>1
  <2>2. CASE t # {}
    <3>1. PICK x \in t : TRUE BY <2>2
    <3>2. t \ {x} \in Q BY <1>1, <3>1
    <3>3. c[x] \in Nat /\ \A f \in t : c[f] \in Nat BY <3>1
    <3>4. CASE t \ {x} = {} BY <3>1, <3>3, <3>4
    <3>5. CASE t \ {x} # {}
      <4>1. PICK m \in t \ {x} : \A f \in t \ {x} : c[f] <= c[m] BY <3>2, <3>5
      <4>2. CASE c[x] <= c[m] BY <4>1, <4>2
      <4>3. CASE ~ (c[x] <= c[m])
        <5>1. \A f \in t : c[f] <= c[x] BY <3>3, <4>1, <4>3
        <5> QED BY <3>1, <5>1
      <4> QED BY <4>2, <4>3
    <3> QED BY <3>4, <3>5
  <2> QED BY <2>1, <2>2
<1>. HIDE DEF Q
<1>2. SUBSET S \subseteq Q BY <1>1, SubsetInduction
<1>3. S \in Q BY <1>2
<1> QED BY <1>3 DEF Q

LEMMA CreatedAtType ==
  ASSUME Types, NEW e \in Committed
  PROVE  CreatedAt(e) \in Nat /\ e \in Event /\ e.sid \in Settlements /\ e.n \in DOMAIN stamps[e.sid]
<1>1. e \in Event /\ e.n \in 1 .. Len(stamps[e.sid]) BY CommittedEvent
<1>2. stamps[e.sid] \in Seq(Nat) /\ e.sid \in Settlements BY <1>1 DEF Types, Event
<1>3. DOMAIN stamps[e.sid] = 1 .. Len(stamps[e.sid]) BY <1>2, LenProperties
<1> QED BY <1>1, <1>2, <1>3, ElementOfSeq DEF CreatedAt

\* No two rows being equally old, the oldest BatchSize are BatchSize at most.
LEMMA FirstOfFits ==
  ASSUME Types, IsFiniteSet(Committed), Distinct
  PROVE  IsFiniteSet(FirstOf(Unpublished)) /\ Cardinality(FirstOf(Unpublished)) <= BatchSize
<1>1. PICK F, U : F = FirstOf(Unpublished) /\ U = Unpublished OBVIOUS
<1>2. U \in SUBSET Committed /\ F \in SUBSET U BY <1>1 DEF FirstOf, Unpublished
<1>3. IsFiniteSet(U) /\ IsFiniteSet(F) BY <1>2, FS_Subset
<1>4. BatchSize \in Nat /\ BatchSize >= 1 BY OutboxAssumption
<1>5. CASE F = {} BY <1>1, <1>3, <1>4, <1>5, FS_EmptySet
<1>6. CASE F # {}
  <2>. DEFINE c == [e \in F |-> CreatedAt(e)]
  <2>1. \A e \in F : CreatedAt(e) \in Nat BY <1>2, CreatedAtType
  <2>2. c \in [F -> Nat] BY <2>1
  <2>. HIDE DEF c
  <2>3. PICK m \in F : \A f \in F : c[f] <= c[m] BY <1>3, <1>6, <2>2, HasYoungest
  <2>4. \A f \in F : CreatedAt(f) <= CreatedAt(m) BY <2>3 DEF c
  <2>5. PICK Below : Below = {f \in U : CreatedAt(f) < CreatedAt(m)} OBVIOUS
  <2>6. ASSUME NEW f \in F \ {m} PROVE f \in Below
    <3>1. CreatedAt(f) # CreatedAt(m) BY <1>2 DEF Distinct
    <3>2. CreatedAt(f) < CreatedAt(m) BY <2>1, <2>4, <3>1
    <3> QED BY <1>2, <2>5, <3>2
  <2>7. F \ {m} \in SUBSET Below /\ IsFiniteSet(Below)
    <3>1. Below \in SUBSET U BY <2>5
    <3> QED BY <1>3, <2>6, <3>1, FS_Subset
  <2>8. Cardinality(F \ {m}) <= Cardinality(Below) BY <2>7, FS_Subset
  <2>9. Cardinality(Below) < BatchSize BY <1>1, <2>3, <2>5 DEF FirstOf
  <2>10. Cardinality(F \ {m}) = Cardinality(F) - 1 BY <1>3, <2>3, FS_RemoveElement
  <2>11. Cardinality(F) \in Nat /\ Cardinality(Below) \in Nat BY <1>3, <2>7, FS_CardinalityType
  <2> QED BY <1>1, <1>3, <1>4, <2>8, <2>9, <2>10, <2>11
<1> QED BY <1>5, <1>6

\* A step that adds neither stamps nor commits keeps the stamps apart.
LEMMA DistinctKept ==
  ASSUME Distinct, UNCHANGED stamps, \A s \in Settlements : stamped'[s] \in {stamped[s], Null}
  PROVE  Distinct'
<1>1. Committed' = Committed BY DEF Committed
<1>2. \A e : CreatedAt(e)' = CreatedAt(e) BY DEF CreatedAt
<1>3. \A s \in Settlements : stamped'[s] # Null => stamped'[s] = stamped[s] OBVIOUS
<1> QED BY <1>1, <1>2, <1>3 DEF Distinct

CommittedIs ==
  Types => \A e : e \in Committed <=> e \in Event /\ e.n \in 1 .. Len(stamps[e.sid])

LEMMA CommittedIsSo == CommittedIs
BY CommittedEvent DEF CommittedIs

LEMMA CommittedIsNext == CommittedIs'
BY CommittedIsSo, PTL

LEMMA DistinctStep == ASSUME OInv, Distinct, OutboxNext PROVE Distinct'
<1>1. Types /\ InOrder BY DEF OInv
<1>2. /\ clock \in Nat /\ stamped \in [Settlements -> Nat \cup {Null}]
      /\ \A e \in Committed : CreatedAt(e) \in Nat /\ CreatedAt(e) < clock
      /\ \A s \in Settlements : stamped[s] # Null => stamped[s] \in Nat /\ stamped[s] < clock
  <2>1. \A e \in Committed : CreatedAt(e) \in Nat /\ CreatedAt(e) < clock
    BY <1>1, CreatedAtType DEF InOrder, CreatedAt
  <2> QED BY <1>1, <2>1 DEF Types, InOrder
<1>3. ASSUME NEW s \in Settlements, Stamp(s) PROVE Distinct'
  <2>1. /\ stamped' = [stamped EXCEPT ![s] = clock] /\ stamps' = stamps BY <1>3 DEF Stamp
  <2>2. Committed' = Committed BY <2>1 DEF Committed
  <2>3. \A e : CreatedAt(e)' = CreatedAt(e) BY <2>1 DEF CreatedAt
  <2>4. \A t \in Settlements : stamped'[t] = IF t = s THEN clock ELSE stamped[t] BY <1>2, <2>1
  <2>5. ASSUME NEW t \in Settlements, stamped'[t] # Null
        PROVE  /\ \A e \in Committed : CreatedAt(e) # stamped'[t]
               /\ \A u \in Settlements \ {t} : stamped'[u] # stamped'[t]
    <3>1. CASE t = s
      <4>1. stamped'[t] = clock BY <2>4, <3>1
      <4>2. \A e \in Committed : CreatedAt(e) # clock BY <1>2
      <4>3. \A u \in Settlements \ {t} : stamped[u] # clock
        BY <1>2, OutboxAssumption
      <4> QED BY <2>4, <3>1, <4>1, <4>2, <4>3
    <3>2. CASE t # s
      <4>1. stamped'[t] = stamped[t] BY <2>4, <3>2
      <4>2. stamped[t] # clock BY <1>2, <2>5, <4>1
      <4> QED BY <2>4, <2>5, <4>1, <4>2 DEF Distinct
    <3> QED BY <3>1, <3>2
  <2> QED BY <2>2, <2>3, <2>5 DEF Distinct
<1>4. ASSUME NEW s \in Settlements, Commit(s) PROVE Distinct'
  <2>. DEFINE new == [sid |-> s, n |-> Len(stamps[s]) + 1]
  <2>1. /\ stamped[s] # Null /\ stamps' = [stamps EXCEPT ![s] = Append(stamps[s], stamped[s])]
        /\ stamped' = [stamped EXCEPT ![s] = Null]
    BY <1>4 DEF Commit
  <2>2. stamps[s] \in Seq(Nat) /\ Len(stamps[s]) \in Nat /\ stamped[s] \in Nat
    BY <1>1, <1>2, <2>1, LenProperties DEF Types
  <2>3. /\ stamps'[s] = Append(stamps[s], stamped[s])
        /\ \A t \in Settlements \ {s} : stamps'[t] = stamps[t]
    BY <1>1, <2>1 DEF Types
  <2>4. /\ Len(stamps'[s]) = Len(stamps[s]) + 1 /\ stamps'[s][Len(stamps[s]) + 1] = stamped[s]
        /\ \A k \in 1 .. Len(stamps[s]) : stamps'[s][k] = stamps[s][k]
    BY <2>2, <2>3, AppendProperties
  <2>5. Types' BY <1>4, CommitKeeps DEF OInv
  <2>6. ASSUME NEW e \in Committed'
        PROVE  (e \in Committed /\ CreatedAt(e)' = CreatedAt(e)) \/ (e = new /\ CreatedAt(e)' = stamped[s])
    <3>1. e \in Event /\ e.n \in 1 .. Len(stamps'[e.sid])
      BY <2>5, CommittedIsNext DEF CommittedIs
    <3>2. e.sid \in Settlements /\ e = [sid |-> e.sid, n |-> e.n] BY <3>1 DEF Event
    <3>3. CASE e.sid # s
      <4>1. stamps'[e.sid] = stamps[e.sid] BY <2>3, <3>2, <3>3
      <4>2. e \in Committed BY <1>1, <3>1, <4>1, CommittedEvent
      <4> QED BY <4>1, <4>2 DEF CreatedAt
    <3>4. CASE e.sid = s /\ e.n \in 1 .. Len(stamps[s])
      <4>1. e \in Committed BY <1>1, <3>1, <3>4, CommittedEvent
      <4> QED BY <2>4, <3>4, <4>1 DEF CreatedAt
    <3>5. CASE e.sid = s /\ e.n = Len(stamps[s]) + 1
      <4>1. e = new BY <3>2, <3>5
      <4> QED BY <2>4, <3>5, <4>1 DEF CreatedAt
    <3> QED BY <2>2, <2>4, <3>1, <3>3, <3>4, <3>5
  <2>7. \A t \in Settlements : stamped'[t] = IF t = s THEN Null ELSE stamped[t] BY <1>2, <2>1
  <2>8. /\ \A e \in Committed : CreatedAt(e) # stamped[s]
        /\ \A t \in Settlements \ {s} : stamped[t] # stamped[s]
    BY <2>1 DEF Distinct
  <2>9. \A e, f \in Committed' : CreatedAt(e)' = CreatedAt(f)' => e = f
    <3>. HIDE DEF new
    <3> QED BY <2>6, <2>8 DEF Distinct
  <2>10. ASSUME NEW t \in Settlements, stamped'[t] # Null
         PROVE  /\ \A e \in Committed' : CreatedAt(e)' # stamped'[t]
                /\ \A u \in Settlements \ {t} : stamped'[u] # stamped'[t]
    <3>1. t # s /\ stamped'[t] = stamped[t] BY <2>7, <2>10
    <3>. HIDE DEF new
    <3> QED BY <2>6, <2>7, <2>8, <2>10, <3>1 DEF Distinct
  <2> QED BY <2>9, <2>10 DEF Distinct
<1>5. ASSUME NEW s \in Settlements, Rollback(s) PROVE Distinct'
  BY <1>2, <1>5, DistinctKept DEF Rollback
<1>6. CASE Relay
  BY <1>6, DistinctKept DEF Relay, Tick, Publish, PublishFails, PublishResent, Mark, MarkFails, producerVars
<1>7. CASE Exit BY <1>7, DistinctKept DEF Exit
<1> QED BY <1>3, <1>4, <1>5, <1>6, <1>7 DEF OutboxNext, Produce

LEMMA BatchFitsStep == ASSUME OInv, Distinct, BatchFits, [OutboxNext]_outboxVars PROVE BatchFits'
<1>1. /\ Types /\ IsFiniteSet(Committed) BY DEF OInv, BatchFromTheFirst
<1>2. /\ relay \in [pc : {"idle", "publish", "mark"}, batch : SUBSET Event, row : Event \cup {Null}]
      /\ BatchSize \in Nat
  BY <1>1, OutboxAssumption DEF Types
<1>3. ASSUME NEW B \in SUBSET relay.batch, relay'.batch = B PROVE BatchFits'
  <2>1. IsFiniteSet(relay.batch) /\ Cardinality(relay.batch) <= BatchSize BY DEF BatchFits
  <2>2. IsFiniteSet(B) /\ Cardinality(B) <= Cardinality(relay.batch) BY <2>1, FS_Subset
  <2>3. Cardinality(B) \in Nat /\ Cardinality(relay.batch) \in Nat BY <2>1, <2>2, FS_CardinalityType
  <2>4. Cardinality(B) <= BatchSize BY <1>2, <2>1, <2>2, <2>3
  <2> QED BY <1>3, <2>2, <2>4 DEF BatchFits
<1>4. CASE Tick
  <2>1. relay'.batch = FirstOf(Unpublished) BY <1>4 DEF Tick, RelayIdle
  <2> QED BY <1>1, <2>1, FirstOfFits DEF BatchFits
<1>5. ASSUME NEW e \in relay.batch, Publish(e) \/ PublishFails(e) \/ PublishResent(e) \/ Mark(e) \/ MarkFails(e)
      PROVE  relay'.batch \in SUBSET relay.batch
  <2>1. RelayIdle.batch = {} /\ RowDone(e).batch \in SUBSET relay.batch
    BY DEF RelayIdle, RowDone
  <2> QED BY <1>2, <1>5, <2>1 DEF Publish, PublishFails, PublishResent, Mark, MarkFails
<1>6. CASE Exit \/ Produce \/ UNCHANGED outboxVars
  <2>1. relay' = relay \/ relay' = RelayIdle
    BY <1>6 DEF Exit, Produce, Stamp, Commit, Rollback, outboxVars
  <2>2. relay'.batch \in SUBSET relay.batch BY <2>1 DEF RelayIdle
  <2> QED BY <1>3, <2>2
<1> QED BY <1>3, <1>4, <1>5, <1>6 DEF OutboxNext, Relay

----------------------------------------------------------------------------
(* Each repetition is the work of one fault. *)

RepeatsOf(h) == {k \in DOMAIN h : \E j \in 1 .. k - 1 : h[j] = h[k]}

\* A sequence repeats at most once more when it grows by one.
LEMMA RepeatsGrow ==
  ASSUME NEW h \in Seq(Nat), NEW n \in Nat
  PROVE  /\ Cardinality(RepeatsOf(h)) \in Nat
         /\ Cardinality(RepeatsOf(Append(h, n))) \in Nat
         /\ Cardinality(RepeatsOf(Append(h, n))) <= Cardinality(RepeatsOf(h)) + 1
         /\ (\A k \in DOMAIN h : h[k] # n) => Cardinality(RepeatsOf(Append(h, n))) = Cardinality(RepeatsOf(h))
<1>1. PICK g, L : g = Append(h, n) /\ L = Len(h) OBVIOUS
<1>2. /\ L \in Nat /\ DOMAIN h = 1 .. L /\ Len(g) = L + 1 /\ g[L + 1] = n
      /\ \A k \in 1 .. L : g[k] = h[k]
      /\ g \in Seq(Nat)
  BY <1>1, AppendProperties, LenProperties
<1>3. DOMAIN g = 1 .. L + 1 BY <1>2, LenProperties
<1>4. PICK A, B : A = RepeatsOf(h) /\ B = RepeatsOf(g) OBVIOUS
<1>5. IsFiniteSet(A) /\ IsFiniteSet(1 .. L)
  <2>1. IsFiniteSet(1 .. L) BY <1>2, FS_Interval
  <2>2. A \in SUBSET (1 .. L) BY <1>2, <1>4 DEF RepeatsOf
  <2> QED BY <2>1, <2>2, FS_Subset
<1>6. \A k \in 1 .. L : k \in B <=> k \in A
  <2> SUFFICES ASSUME NEW k \in 1 .. L PROVE k \in B <=> k \in A OBVIOUS
  <2>1. \A j \in 1 .. k - 1 : j \in 1 .. L BY <1>2
  <2> QED BY <1>2, <1>3, <1>4, <2>1 DEF RepeatsOf
<1>7. L + 1 \in B <=> \E j \in 1 .. L : h[j] = n BY <1>2, <1>3, <1>4 DEF RepeatsOf
<1>8. B \subseteq 1 .. L + 1 /\ A \subseteq 1 .. L BY <1>2, <1>3, <1>4 DEF RepeatsOf
<1>9. L + 1 \notin A BY <1>2, <1>8
<1>10. IF L + 1 \in B THEN B = A \cup {L + 1} ELSE B = A
  <2>1. \A k \in 1 .. L + 1 : k \in 1 .. L \/ k = L + 1 BY <1>2
  <2>2. \A k \in B : k \in A \/ k = L + 1 BY <1>6, <1>8, <2>1
  <2>3. A \subseteq B BY <1>6, <1>8
  <2> QED BY <2>2, <2>3
<1>11. /\ Cardinality(A) \in Nat /\ IsFiniteSet(A \cup {L + 1})
       /\ Cardinality(A \cup {L + 1}) = Cardinality(A) + 1
  BY <1>5, <1>9, FS_AddElement, FS_CardinalityType
<1>12. (\A k \in DOMAIN h : h[k] # n) => B = A BY <1>2, <1>7, <1>10
<1>13. /\ Cardinality(A) \in Nat /\ Cardinality(B) \in Nat
       /\ Cardinality(B) <= Cardinality(A) + 1
  <2>1. CASE B = A BY <2>1, <1>11
  <2>2. CASE B = A \cup {L + 1} BY <2>2, <1>11
  <2> QED BY <1>10, <2>1, <2>2
<1>14. A = RepeatsOf(h) /\ B = RepeatsOf(Append(h, n)) BY <1>1, <1>4
<1> QED BY <1>12, <1>13, <1>14

\* What a delivery does to the stream of its settlement.
LEMMA DeliverRepeats ==
  ASSUME OInv, HeardUpTo, NEW e, IsNext(e), Deliver(e)
  PROVE  /\ HeardUpTo'
         /\ e.sid \in Settlements /\ e \in Event /\ e \notin marked
         /\ Repeats(e.sid) \in Nat /\ Repeats(e.sid)' \in Nat
         /\ Heard(e.sid)' = e.n
         /\ \/ Repeats(e.sid)' = Repeats(e.sid)
            \/ Heard(e.sid) = e.n /\ Repeats(e.sid)' <= Repeats(e.sid) + 1
         /\ \A s \in Settlements : s # e.sid => Repeats(s)' = Repeats(s) /\ Heard(s)' = Heard(s)
<1>1. Types BY DEF OInv
<1>2. /\ e \in Event /\ e.sid \in Settlements /\ e.n \in Nat
      /\ Heard(e.sid) \in {e.n - 1, e.n} /\ Heard(e.sid) \in Nat
  BY <1>1, NextIsDue, HeardType DEF Event
<1>3. e \notin marked BY DEF IsNext, OInv, BatchFromTheFirst, Unpublished
<1>4. /\ heard'[e.sid] = Append(heard[e.sid], e.n) /\ Heard(e.sid)' = e.n
      /\ \A s \in Settlements : s # e.sid => heard'[s] = heard[s] /\ Heard(s)' = Heard(s)
  BY <1>1, <1>2, HeardAfter
<1>5. PICK h : h = heard[e.sid] OBVIOUS
<1>6. h \in Seq(Nat) /\ Len(h) \in Nat /\ DOMAIN h = 1 .. Len(h) BY <1>1, <1>2, <1>5, LenProperties DEF Types
<1>7. \A s : Repeats(s) = Cardinality(RepeatsOf(heard[s])) /\ Repeats(s)' = Cardinality(RepeatsOf(heard'[s]))
  BY DEF Repeats, RepeatsOf
<1>8. \A k \in DOMAIN h : h[k] \in Nat /\ h[k] <= Heard(e.sid)
  BY <1>2, <1>5, <1>6, ElementOfSeq DEF HeardUpTo
<1>9. \A s \in Settlements : s # e.sid => Repeats(s)' = Repeats(s) BY <1>4, <1>7
<1>10. PICK a, b : a = Repeats(e.sid) /\ b = Repeats(e.sid)' OBVIOUS
<1>11. a = Cardinality(RepeatsOf(h)) /\ b = Cardinality(RepeatsOf(Append(h, e.n))) BY <1>4, <1>5, <1>7, <1>10
<1>12. /\ a \in Nat /\ b \in Nat /\ b <= a + 1
       /\ (\A k \in DOMAIN h : h[k] # e.n) => b = a
  BY <1>2, <1>6, <1>11, RepeatsGrow
<1>13. Heard(e.sid) # e.n => b = a BY <1>2, <1>8, <1>12
<1>14. HeardUpTo'
  <2> SUFFICES ASSUME NEW s \in Settlements, NEW k \in DOMAIN heard'[s] PROVE heard'[s][k] <= Heard(s)'
    BY DEF HeardUpTo
  <2>1. CASE s # e.sid BY <1>4, <2>1 DEF HeardUpTo
  <2>2. CASE s = e.sid
    <3>1. PICK g : g = Append(h, e.n) OBVIOUS
    <3>2. /\ g \in Seq(Nat) /\ Len(g) = Len(h) + 1 /\ g[Len(h) + 1] = e.n
          /\ \A j \in 1 .. Len(h) : g[j] = h[j]
      BY <1>2, <1>6, <3>1, AppendProperties
    <3>3. DOMAIN g = 1 .. Len(h) + 1 BY <1>6, <3>2, LenProperties
    <3>4. heard'[s] = g /\ k \in 1 .. Len(h) + 1 BY <1>4, <1>5, <2>2, <3>1, <3>3
    <3>5. k \in 1 .. Len(h) \/ k = Len(h) + 1 BY <1>6, <3>4
    <3>6. g[k] <= e.n BY <1>2, <1>6, <1>8, <3>2, <3>5
    <3> QED BY <1>4, <2>2, <3>4, <3>6
  <2> QED BY <2>1, <2>2
<1> QED BY <1>2, <1>3, <1>4, <1>9, <1>10, <1>12, <1>13, <1>14

LEMMA PaidStep ==
  ASSUME OInv, HeardUpTo, faults \in Nat, Paid, [OutboxNext]_outboxVars
  PROVE  HeardUpTo' /\ faults' \in Nat /\ Paid'
<1>1. Types /\ MaxFaults \in Nat /\ faults <= MaxFaults BY OutboxAssumption DEF OInv, Paid
<1>2. \A s \in Settlements : Repeats(s) \in Nat /\ Heard(s) \in Nat
  <2> SUFFICES ASSUME NEW s \in Settlements PROVE Repeats(s) \in Nat /\ Heard(s) \in Nat OBVIOUS
  <2>1. heard[s] \in Seq(Nat) BY <1>1 DEF Types
  <2>2. Cardinality(RepeatsOf(heard[s])) \in Nat BY <2>1, RepeatsGrow
  <2> QED BY <1>1, <2>2, HeardType DEF Repeats, RepeatsOf
<1>3. \A s \in Settlements : /\ Repeats(s) <= MaxFaults - faults
                             /\ Owed(s) => Repeats(s) < MaxFaults - faults
  BY DEF Paid
\* A fault pays for a repetition to come.
<1>4. ASSUME Fault, HeardUpTo', \A s \in Settlements : Repeats(s)' = Repeats(s)
      PROVE  HeardUpTo' /\ faults' \in Nat /\ Paid'
  BY <1>1, <1>2, <1>3, <1>4 DEF Fault, Paid
\* The stream as it was.
<1>5. ASSUME UNCHANGED heard
      PROVE  HeardUpTo' /\ \A s \in Settlements : Repeats(s)' = Repeats(s) /\ Heard(s)' = Heard(s)
  BY <1>5 DEF HeardUpTo, Repeats, Heard, Channel!Latest
<1>6. ASSUME UNCHANGED heard, Fault PROVE HeardUpTo' /\ faults' \in Nat /\ Paid'
  BY <1>4, <1>5, <1>6
\* No fault, and nothing new is owed.
<1>7. ASSUME UNCHANGED <<heard, faults>>, \A s \in Settlements : Owed(s)' => Owed(s)
      PROVE  HeardUpTo' /\ faults' \in Nat /\ Paid'
  <2>1. HeardUpTo' /\ \A s \in Settlements : Repeats(s)' = Repeats(s) BY <1>5, <1>7
  <2> QED BY <1>1, <1>3, <1>7, <2>1 DEF Paid
<1>8. CASE UNCHANGED <<heard, faults, marked, relay>>
  <2>1. \A s \in Settlements : Heard(s)' = Heard(s) BY <1>5, <1>8
  <2>2. \A s \in Settlements : Owed(s)' => Owed(s) BY <1>8, <2>1 DEF Owed
  <2> QED BY <1>7, <1>8, <2>2
<1>9. CASE Tick
  <2>1. /\ relay'.pc = "publish" /\ relay.pc = "idle" /\ UNCHANGED <<heard, faults, marked>>
    BY <1>9 DEF Tick, RelayIdle
  <2>2. \A s \in Settlements : Heard(s)' = Heard(s) BY <1>5, <2>1
  <2>3. \A s \in Settlements : Owed(s)' => Owed(s) BY <2>1, <2>2 DEF Owed
  <2> QED BY <1>7, <2>1, <2>3
<1>10. ASSUME NEW e, Publish(e) PROVE HeardUpTo' /\ faults' \in Nat /\ Paid'
  <2>1. /\ relay.pc = "publish" /\ IsNext(e) /\ Deliver(e) /\ UNCHANGED <<faults, marked>>
        /\ relay' = [relay EXCEPT !.pc = "mark", !.row = e]
    BY <1>10 DEF Publish
  <2>2. relay'.pc = "mark" /\ relay'.row = e BY <1>1, <2>1 DEF Types
  <2>3. /\ HeardUpTo' /\ e.sid \in Settlements /\ e \in Event /\ e \notin marked
        /\ Repeats(e.sid) \in Nat /\ Repeats(e.sid)' \in Nat /\ Heard(e.sid)' = e.n
        /\ \/ Repeats(e.sid)' = Repeats(e.sid)
           \/ Heard(e.sid) = e.n /\ Repeats(e.sid)' <= Repeats(e.sid) + 1
        /\ \A s \in Settlements : s # e.sid => Repeats(s)' = Repeats(s) /\ Heard(s)' = Heard(s)
    BY <2>1, DeliverRepeats
  <2>4. e = [sid |-> e.sid, n |-> e.n] /\ e.n \in Nat BY <2>3 DEF Event
  <2>5. Heard(e.sid) = e.n => Owed(e.sid)
    <3>1. e.n # 0 BY <2>1, <2>4, NextIsDue
    <3> QED BY <2>1, <2>3, <2>4, <3>1 DEF Owed
  <2>6. ~ Owed(e.sid)' BY <2>2, <2>3, <2>4 DEF Owed
  <2>7. Repeats(e.sid)' <= MaxFaults - faults
    <3>1. PICK a, b : a = Repeats(e.sid) /\ b = Repeats(e.sid)' OBVIOUS
    <3> QED BY <1>1, <1>3, <2>3, <2>5, <3>1
  <2>8. \A s \in Settlements \ {e.sid} : Owed(s)' => Owed(s) BY <2>1, <2>2, <2>3 DEF Owed
  <2>9. ASSUME NEW s \in Settlements
        PROVE Repeats(s)' <= MaxFaults - faults' /\ (Owed(s)' => Repeats(s)' < MaxFaults - faults')
    <3>1. CASE s = e.sid BY <2>1, <2>6, <2>7, <3>1
    <3>2. CASE s # e.sid BY <1>3, <2>1, <2>3, <2>8, <3>2
    <3> QED BY <3>1, <3>2
  <2> QED BY <1>1, <2>1, <2>3, <2>9 DEF Paid
\* A run that delivers and fails, or resends: the fault pays.
<1>11. ASSUME NEW e, IsNext(e), Fault, relay.pc = "publish", Deliver(e) \/ UNCHANGED heard, UNCHANGED marked
       PROVE  HeardUpTo' /\ faults' \in Nat /\ Paid'
  <2>1. CASE UNCHANGED heard BY <1>6, <1>11, <2>1
  <2>2. CASE Deliver(e)
    <3>1. /\ HeardUpTo' /\ e.sid \in Settlements /\ e \in Event /\ e \notin marked
          /\ Repeats(e.sid) \in Nat /\ Repeats(e.sid)' \in Nat
          /\ \/ Repeats(e.sid)' = Repeats(e.sid)
             \/ Heard(e.sid) = e.n /\ Repeats(e.sid)' <= Repeats(e.sid) + 1
          /\ \A s \in Settlements : s # e.sid => Repeats(s)' = Repeats(s)
      BY <1>11, <2>2, DeliverRepeats
    <3>2. e = [sid |-> e.sid, n |-> e.n] /\ e.n \in Nat BY <3>1 DEF Event
    <3>3. Heard(e.sid) = e.n => Owed(e.sid)
      <4>1. e.n # 0 BY <1>11, <3>2, NextIsDue
      <4> QED BY <1>11, <3>1, <3>2, <4>1 DEF Owed
    <3>4. faults' = faults - 1 /\ faults' \in Nat BY <1>11 DEF Fault
    <3>5. Repeats(e.sid)' < MaxFaults - faults'
      <4>1. PICK a, b : a = Repeats(e.sid) /\ b = Repeats(e.sid)' OBVIOUS
      <4> QED BY <1>1, <1>3, <3>1, <3>3, <3>4, <4>1
    <3>6. \A s \in Settlements : Repeats(s)' < MaxFaults - faults'
      <4> SUFFICES ASSUME NEW s \in Settlements PROVE Repeats(s)' < MaxFaults - faults' OBVIOUS
      <4>1. CASE s = e.sid BY <3>5, <4>1
      <4>2. CASE s # e.sid
        <5>1. Repeats(s)' = Repeats(s) BY <3>1, <4>2
        <5> QED BY <1>1, <1>2, <1>3, <3>4, <5>1
      <4> QED BY <4>1, <4>2
    <3>7. \A s \in Settlements : Repeats(s)' <= MaxFaults - faults'
      <4>1. ASSUME NEW s \in Settlements PROVE Repeats(s)' \in Nat
        BY <1>2, <3>1
      <4> QED BY <1>1, <3>4, <3>6, <4>1
    <3>8. faults' <= MaxFaults BY <1>1, <3>4
    <3> QED BY <3>1, <3>4, <3>6, <3>7, <3>8 DEF Paid
  <2> QED BY <1>11, <2>1, <2>2
<1>12. ASSUME NEW e, Mark(e) PROVE HeardUpTo' /\ faults' \in Nat /\ Paid'
  <2>1. relay.pc = "mark" /\ e = relay.row /\ marked' = marked \cup {e} /\ UNCHANGED <<heard, faults>>
    BY <1>12 DEF Mark
  <2>2. \A s \in Settlements : Heard(s)' = Heard(s) BY <1>5, <2>1
  <2>3. \A s \in Settlements : Owed(s)' => Owed(s) BY <2>1, <2>2 DEF Owed
  <2> QED BY <1>7, <2>1, <2>3
<1>13. ASSUME NEW e, MarkFails(e) PROVE HeardUpTo' /\ faults' \in Nat /\ Paid'
  BY <1>6, <1>13 DEF MarkFails
<1>14. CASE Exit BY <1>6, <1>14 DEF Exit
<1>15. ASSUME NEW s \in Settlements, Rollback(s) PROVE HeardUpTo' /\ faults' \in Nat /\ Paid'
  BY <1>6, <1>15 DEF Rollback
<1>16. ASSUME NEW s \in Settlements, Stamp(s) \/ Commit(s) PROVE HeardUpTo' /\ faults' \in Nat /\ Paid'
  BY <1>8, <1>16 DEF Stamp, Commit
<1>17. CASE UNCHANGED outboxVars BY <1>8, <1>17 DEF outboxVars
<1> QED BY <1>9, <1>10, <1>11, <1>12, <1>13, <1>14, <1>15, <1>16, <1>17
    DEF OutboxNext, Produce, Relay, PublishFails, PublishResent

LEMMA StreamInvariant == OutboxSpec => []StreamInv
<1>1. OutboxInit => StreamInv
  <2> SUFFICES ASSUME OutboxInit PROVE StreamInv OBVIOUS
  <2>1. OInv BY InitOInv
  <2>2. \A s \in Settlements : stamps[s] = <<>> /\ heard[s] = <<>> /\ stamped[s] = Null
    BY DEF OutboxInit
  <2>3. \A s \in Settlements : DOMAIN stamps[s] = {} /\ DOMAIN heard[s] = {} BY <2>2
  <2>4. Committed = {} BY <2>3 DEF Committed
  <2>5. Distinct BY <2>2, <2>4 DEF Distinct
  <2>6. BatchFits BY FS_EmptySet, OutboxAssumption DEF BatchFits, OutboxInit, RelayIdle
  <2>7. HeardUpTo BY <2>3 DEF HeardUpTo
  <2>8. faults \in Nat /\ faults = MaxFaults BY OutboxAssumption DEF OutboxInit
  <2>9. \A s \in Settlements : Heard(s) = 0 BY <2>2 DEF Heard, Channel!Latest
  <2>10. \A s \in Settlements : Repeats(s) = 0 BY <2>3, FS_EmptySet DEF Repeats
  <2>11. Paid BY <2>8, <2>9, <2>10 DEF Paid, Owed
  <2> QED BY <2>1, <2>5, <2>6, <2>7, <2>8, <2>11 DEF StreamInv
<1>2. StreamInv /\ [OutboxNext]_outboxVars => StreamInv'
  <2> SUFFICES ASSUME StreamInv, [OutboxNext]_outboxVars PROVE StreamInv' OBVIOUS
  <2>1. OInv' BY StepKeeps DEF StreamInv
  <2>2. Distinct'
    <3>1. CASE OutboxNext BY <3>1, DistinctStep DEF StreamInv
    <3>2. CASE UNCHANGED outboxVars
      BY <3>2, DistinctKept DEF StreamInv, outboxVars, producerVars
    <3> QED BY <3>1, <3>2
  <2>3. BatchFits' BY BatchFitsStep DEF StreamInv
  <2>4. HeardUpTo' /\ faults' \in Nat /\ Paid' BY PaidStep DEF StreamInv
  <2> QED BY <2>1, <2>2, <2>3, <2>4 DEF StreamInv
<1> QED BY <1>1, <1>2, PTL DEF OutboxSpec

\* The outbox and the relay keep their types; a batch never exceeds BatchSize rows,
\* because no two events are equally old.
THEOREM OutboxTypeCorrect == OutboxSpec => []OutboxTypeOK
<1>1. StreamInv => OutboxTypeOK
  BY DEF StreamInv, OInv, Types, BatchFits, OutboxTypeOK
<1> QED BY <1>1, StreamInvariant, PTL

\* outbox.relay.ts: of each settlement, the stream repeats no more events than
\* there were exits and lost answers; without any, it holds each event once.
THEOREM RepeatsNeedFaults == OutboxSpec => []RepeatsAreFaults
<1>1. StreamInv => RepeatsAreFaults BY DEF StreamInv, Paid, RepeatsAreFaults
<1> QED BY <1>1, StreamInvariant, PTL

=============================================================================
