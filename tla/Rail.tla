-------------------------------- MODULE Rail --------------------------------
(***************************************************************************)
(* The rail: the relayer and the chain listener in one process, over the   *)
(* settlement table they both write and the chain they both read.          *)
(***************************************************************************)
EXTENDS Relayer, ChainListener

railVars == <<vars, listenerVars>>

RailInit == Init /\ ListenerInit

RelayerStep == (Boot \/ Submit \/ Worker \/ Sweep \/ Drain) /\ UNCHANGED listenerVars

\* The interval poll and the events are on as soon as the process is up.
ListenerStep == Up /\ Watch /\ UNCHANGED relayerVars

\* The process exits: both components lose their memory.
RailCrash ==
  /\ Up
  /\ Spend("crash")
  /\ Exit
  /\ ListenerExit
  /\ UNCHANGED <<sent, pool, blocks, stateVars, ledger>>

ChainStep == ChainNext /\ UNCHANGED <<stateVars, relayerVars, listenerVars>>

RailNext == RelayerStep \/ ListenerStep \/ RailCrash \/ ChainStep

RailSpec == RailInit /\ [][RailNext]_railVars

\* The event loop runs what is ready, the intervals of the poll and of the
\* sweep fire again and again, blocks keep coming, and a transfer that stays
\* pending is found stale in the end: STUCK_TX_SECONDS pass.
RailFairness ==
  /\ WF_railVars(Boot /\ UNCHANGED listenerVars)
  /\ WF_railVars(Worker /\ UNCHANGED listenerVars)
  /\ WF_railVars((\E s \in Settlements : Enqueue(s)) /\ UNCHANGED listenerVars)
  /\ WF_railVars(Sweep /\ UNCHANGED listenerVars)
  /\ SF_railVars((\E snap \in sweep.list : SweepStale(snap)) /\ UNCHANGED listenerVars)
  /\ WF_railVars(Up /\ PollRead /\ UNCHANGED relayerVars)
  /\ \A w \in Watchers : WF_railVars(Up /\ Continue(w) /\ UNCHANGED relayerVars)
  /\ WF_railVars(MineEmpty /\ UNCHANGED <<stateVars, relayerVars, listenerVars>>)

FairRailSpec == RailSpec /\ RailFairness

----------------------------------------------------------------------------
(* What the rail must keep. *)

RailTypeOK == TypeOK /\ ListenerTypeOK

\* What the watchers decided and have not written yet.
Due == {[by |-> w, of |-> watcher[w].cur.id, to |-> watcher[w].to]
          : w \in {v \in Watchers : watcher[v].pc = "write"}}

Promise == INSTANCE Lifecycle WITH
  status <- [s \in Settlements |-> row[s].status],
  told   <- outbox,
  booked <- {s \in Settlements : Booked(s)},
  due    <- Due

\* The rail keeps the promise of Lifecycle: its rows, its outbox and its ledger
\* change only as that module says, with poll and event handlers racing each other
\* and the relayer (transition, finalize, handleReorg).
KeepsPromise == Promise!LifecycleSpec

\* A watcher finalises a settlement only for a payment in the block its copy of
\* the row says it was confirmed in, and up to the FINAL write no reorganisation
\* takes that block away, whatever head and receipt it read and whoever writes the
\* row meanwhile (processReceipt). The row itself may name another block by then:
\* one that an event handler writes late.
FinalBlockIsCanonical ==
  \A w \in Watchers :
    LET r == watcher[w]
    IN  r.pc \in {"book", "check", "write"} /\ r.to = "FINAL" /\ r.cur.cblock # Null =>
          \E i \in Payments(r.cur.id) : [height |-> i, fork |-> blocks[i].fork] = r.cur.cblock

\* handleReorg refuses to withdraw the confirmation of a settlement that is not
\* CONFIRMED: one that a late write made SUBMITTED again keeps its block.
Wedged(s) == row[s].status = "SUBMITTED" /\ row[s].cblock # Null

\* No activity of the process holds the job of s any more.
Forgotten(s) ==
  /\ s \notin requests
  /\ \A i \in DOMAIN queue : queue[i] # s
  /\ worker.pc # "idle" => worker.id # s

\* An approved settlement is sent or failed, unless the process drains, or its job
\* was lost with the process or by a rejected call: processJob reads the row and
\* the fees before its try block (relayer.service.ts:119, 141-142), and a call in
\* its catch block may reject too; runWorker (105-110) logs both and goes on.
ApprovedIsDecidedUnlessForgotten ==
  \A s \in Settlements :
    row[s].status = "COMPLIANCE_APPROVED" ~>
      \/ row[s].status \in {"SUBMITTED", "FAILED"}
      \/ draining
      \/ Forgotten(s) /\ (faults["crash"] < Faults["crash"] \/ faults["throw"] < Faults["throw"])

\* A settlement whose recorded transfer stays mined is decided: the listener
\* finalises it, or the relayer had given up on it before, or it is wedged.
MinedIsDecided ==
  \A s \in Settlements :
    <>[](row[s].tx # Null /\ Mined(row[s].tx)) =>
      <>(row[s].status \in {"FINAL", "FAILED"} \/ Wedged(s))

\* relayer.service.ts, bumpAndResend: "original likely mined; leaving to
\* listener". A settlement that is paid for good does not stay SUBMITTED.
PaidIsNoticed ==
  \A s \in Settlements : <>[] Paid(s) => <>[](row[s].status # "SUBMITTED")

\* docs: FINAL is the terminal signal. A FINAL settlement stays FINAL.
FinalStays ==
  [][\A s \in Settlements : row[s].status = "FINAL" => row'[s].status = "FINAL"]_railVars

=============================================================================
