------------------------------- MODULE Outbox -------------------------------
(***************************************************************************)
(* The outbox: transition() inserts an event in the transaction of the     *)
(* status write (settlement-state/settlement-state.service.ts), the relay  *)
(* (outbox/outbox.relay.ts) publishes the unpublished events oldest first  *)
(* and marks each one published.                                           *)
(*                                                                         *)
(* The events of a settlement are numbered in the order their transactions *)
(* commit; createdAt is taken before the commit, so that an event may      *)
(* become visible after a younger one of another settlement. The row lock  *)
(* of the status write keeps the transactions of one settlement apart.     *)
(***************************************************************************)
EXTENDS Integers, Sequences, FiniteSets

CONSTANTS
  Settlements,
  Null,          \* no transaction
  BatchSize,     \* how many rows a tick takes (50 in the code)
  MaxEvents,     \* bound: the events of a settlement
  MaxFaults      \* bound: exits, failed calls and lost answers

ASSUME OutboxAssumption ==
  /\ Null \notin Nat
  /\ BatchSize \in Nat \ {0}
  /\ {MaxEvents, MaxFaults} \subseteq Nat

VARIABLES
  clock,     \* the next createdAt
  stamped,   \* the createdAt of the event that a transaction is inserting
  stamps,    \* the createdAt of each committed event of each settlement
  marked,    \* the events with a publishedAt
  heard,     \* what the stream holds of each settlement: event numbers, in order
  relay,     \* relay()'s local variables; "idle" when running is false
  faults     \* how many faults may still happen

producerVars == <<clock, stamped, stamps>>
outboxVars == <<producerVars, marked, heard, relay, faults>>

Event == [sid : Settlements, n : Nat]

RelayIdle == [pc |-> "idle", batch |-> {}, row |-> Null]

OutboxTypeOK ==
  /\ {clock, faults} \subseteq Nat
  /\ stamped \in [Settlements -> Nat \cup {Null}]
  /\ stamps \in [Settlements -> Seq(Nat)]
  /\ marked \subseteq Event
  /\ heard \in [Settlements -> Seq(Nat)]
  /\ relay \in [pc : {"idle", "publish", "mark"}, batch : SUBSET Event, row : Event \cup {Null}]
  /\ Cardinality(relay.batch) <= BatchSize

OutboxInit ==
  /\ clock = 0
  /\ stamped = [s \in Settlements |-> Null]
  /\ stamps = [s \in Settlements |-> <<>>]
  /\ marked = {}
  /\ heard = [s \in Settlements |-> <<>>]
  /\ relay = RelayIdle
  /\ faults = MaxFaults

Fault ==
  /\ faults > 0
  /\ faults' = faults - 1

----------------------------------------------------------------------------
(* transition(): the event row, and the commit. *)

Stamp(s) ==
  /\ stamped[s] = Null
  /\ Len(stamps[s]) < MaxEvents
  /\ stamped' = [stamped EXCEPT ![s] = clock]
  /\ clock' = clock + 1
  /\ UNCHANGED <<stamps, marked, heard, relay, faults>>

Commit(s) ==
  /\ stamped[s] # Null
  /\ stamps' = [stamps EXCEPT ![s] = Append(@, stamped[s])]
  /\ stamped' = [stamped EXCEPT ![s] = Null]
  /\ UNCHANGED <<clock, marked, heard, relay, faults>>

Rollback(s) ==
  /\ stamped[s] # Null
  /\ Fault
  /\ stamped' = [stamped EXCEPT ![s] = Null]
  /\ UNCHANGED <<clock, stamps, marked, heard, relay>>

----------------------------------------------------------------------------
(* relay() *)

CreatedAt(e) == stamps[e.sid][e.n]

Committed == UNION {{[sid |-> s, n |-> k] : k \in DOMAIN stamps[s]} : s \in Settlements}

Unpublished == Committed \ marked

\* orderBy createdAt asc, take BatchSize
\* Mutant: a row too many.
FirstOfOneMore(events) ==
  {e \in events : Cardinality({f \in events : CreatedAt(f) < CreatedAt(e)}) <= BatchSize}

FirstOf(events) ==
  {e \in events : Cardinality({f \in events : CreatedAt(f) < CreatedAt(e)}) < BatchSize}

\* The interval fires and no run is going on.
Tick ==
  /\ relay.pc = "idle"
  /\ Unpublished # {}
  /\ relay' = [RelayIdle EXCEPT !.pc = "publish", !.batch = FirstOf(Unpublished)]
  /\ UNCHANGED <<producerVars, marked, heard, faults>>

\* The rows are taken one after the other, in their order.
IsNext(e) == e \in relay.batch /\ \A f \in relay.batch : CreatedAt(e) <= CreatedAt(f)

\* The loop goes to the next row, or ends.
RowDone(e) ==
  IF relay.batch = {e} THEN RelayIdle
  ELSE [RelayIdle EXCEPT !.pc = "publish", !.batch = relay.batch \ {e}]

Deliver(e) == heard' = [heard EXCEPT ![e.sid] = Append(@, e.n)]

Publish(e) ==
  /\ relay.pc = "publish"
  /\ IsNext(e)
  /\ Deliver(e)
  /\ relay' = [relay EXCEPT !.pc = "mark", !.row = e]
  /\ UNCHANGED <<producerVars, marked, faults>>

\* The broker refuses the event, or takes it and its answer is lost: the run ends.
\* Mutant: the run goes on with the next row.
PublishFailsSkips(e) ==
  /\ relay.pc = "publish"
  /\ IsNext(e)
  /\ Fault
  /\ Deliver(e) \/ UNCHANGED heard
  /\ relay' = RowDone(e)
  /\ UNCHANGED <<producerVars, marked>>

\* Mutant: running stays set.
PublishFailsKeepsRunning(e) ==
  /\ relay.pc = "publish"
  /\ IsNext(e)
  /\ Fault
  /\ Deliver(e) \/ UNCHANGED heard
  /\ relay' = [relay EXCEPT !.batch = {}]
  /\ UNCHANGED <<producerVars, marked>>

PublishFails(e) ==
  /\ relay.pc = "publish"
  /\ IsNext(e)
  /\ Fault
  /\ Deliver(e) \/ UNCHANGED heard
  /\ relay' = RelayIdle
  /\ UNCHANGED <<producerVars, marked>>

\* Mutant: the whole batch is marked with its first event.
MarkBatch(e) ==
  /\ relay.pc = "mark"
  /\ e = relay.row
  /\ marked' = marked \cup relay.batch
  /\ relay' = RelayIdle
  /\ UNCHANGED <<producerVars, heard, faults>>

\* Mutant: publishedAt is not written.
MarkForgotten(e) ==
  /\ relay.pc = "mark"
  /\ e = relay.row
  /\ relay' = RowDone(e)
  /\ UNCHANGED <<producerVars, marked, heard, faults>>

Mark(e) ==
  /\ relay.pc = "mark"
  /\ e = relay.row
  /\ marked' = marked \cup {e}
  /\ relay' = RowDone(e)
  /\ UNCHANGED <<producerVars, heard, faults>>

\* XADD is sent again after a lost connection: the run goes on.
PublishResent(e) ==
  /\ relay.pc = "publish"
  /\ IsNext(e)
  /\ Fault
  /\ Deliver(e)
  /\ UNCHANGED <<producerVars, marked, relay>>

\* The update fails, or its answer is lost: the run ends.
MarkFails(e) ==
  /\ relay.pc = "mark"
  /\ e = relay.row
  /\ Fault
  /\ marked' \in {marked, marked \cup {e}}
  /\ relay' = RelayIdle
  /\ UNCHANGED <<producerVars, heard>>

\* The process exits; open transactions roll back.
Exit ==
  /\ Fault
  /\ relay' = RelayIdle
  /\ stamped' = [s \in Settlements |-> Null]
  /\ UNCHANGED <<clock, stamps, marked, heard>>

----------------------------------------------------------------------------
Produce == \E s \in Settlements : Stamp(s) \/ Commit(s) \/ Rollback(s)

Relay ==
  \/ Tick
  \/ \E e \in relay.batch : Publish(e) \/ PublishFails(e) \/ PublishResent(e) \/ Mark(e) \/ MarkFails(e)

OutboxNext == Produce \/ Relay \/ Exit

OutboxSpec == OutboxInit /\ [][OutboxNext]_outboxVars

\* The interval fires again and again, and a run goes on to its end.
FairOutboxSpec == OutboxSpec /\ WF_outboxVars(Relay)

----------------------------------------------------------------------------
(* What the outbox must keep. *)

\* The outbox implements the channel: at least once, in order, for each settlement.
Channel == INSTANCE EventChannel WITH
  told <- [s \in Settlements |-> Len(stamps[s])]

\* The consumer hears the events of a settlement in order and without a gap,
\* and an event again only before the next one, whatever fails in the relay
\* and in whatever order the transactions of other settlements commit.
ImplementsChannel == Channel!ChannelSpec

\* Every committed event is heard: a failing publish or mark only delays it.
EventsAreHeard ==
  \A s \in Settlements : \A n \in 1 .. MaxEvents :
    n <= Len(stamps[s]) ~> \E k \in DOMAIN heard[s] : heard[s][k] = n

\* Nothing is marked published that the stream does not hold.
MarkedIsHeard ==
  \A e \in marked : \E k \in DOMAIN heard[e.sid] : heard[e.sid][k] = e.n

\* How often the stream repeats an event of s.
Repeats(s) == Cardinality({k \in DOMAIN heard[s] : \E j \in 1 .. k - 1 : heard[s][j] = heard[s][k]})

\* The stream repeats no more events of a settlement than there were faults:
\* without any, exactly once.
RepeatsAreFaults ==
  \A s \in Settlements : Repeats(s) <= MaxFaults - faults

=============================================================================
