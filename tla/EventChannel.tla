---------------------------- MODULE EventChannel ----------------------------
(***************************************************************************)
(* What the outbox promises to the consumer of the event stream: every     *)
(* event of a settlement is heard at least once and in order. An event may *)
(* be heard again before the next one, never after it.                     *)
(***************************************************************************)
EXTENDS Integers, Sequences

CONSTANT Settlements

VARIABLES
  told,     \* how many events each settlement announced
  heard     \* the numbers of the events heard of each settlement, in order

channelVars == <<told, heard>>

\* The last event heard of s; 0 before the first.
Latest(s) == IF heard[s] = <<>> THEN 0 ELSE heard[s][Len(heard[s])]

ChannelInit ==
  /\ told = [s \in Settlements |-> 0]
  /\ heard = [s \in Settlements |-> <<>>]

Tell(s) ==
  /\ told' = [told EXCEPT ![s] = @ + 1]
  /\ UNCHANGED heard

HearNext(s) ==
  /\ Latest(s) < told[s]
  /\ heard' = [heard EXCEPT ![s] = Append(@, Latest(s) + 1)]
  /\ UNCHANGED told

HearAgain(s) ==
  /\ heard[s] # <<>>
  /\ heard' = [heard EXCEPT ![s] = Append(@, Latest(s))]
  /\ UNCHANGED told

ChannelNext == \E s \in Settlements : Tell(s) \/ HearNext(s) \/ HearAgain(s)

ChannelSpec == ChannelInit /\ [][ChannelNext]_channelVars

FairChannelSpec == ChannelSpec /\ \A s \in Settlements : WF_channelVars(HearNext(s))

=============================================================================
