-------------------------- MODULE ReliableChannel --------------------------
(***************************************************************************)
(* What CNetChan promises its users while nobody clears it: every stream   *)
(* of every direction is a lossless queue. A lane is one such stream.      *)
(***************************************************************************)
EXTENDS Naturals, Sequences

CONSTANTS Lane,     \* a direction and a stream of it
          Queue     \* [Lane -> Seq(message)], what is put into each lane, in order

VARIABLES sent,     \* [Lane -> Nat], messages of the queue given to the channel
          received, \* [Lane -> Seq(message)], messages the other end has handled
          released  \* [Lane -> Nat], messages the sender holds no copy of any more

channelVars == <<sent, received, released>>

Init ==
  /\ sent = [l \in Lane |-> 0]
  /\ received = [l \in Lane |-> <<>>]
  /\ released = [l \in Lane |-> 0]

Send(l) ==
  /\ sent[l] < Len(Queue[l])
  /\ sent' = [sent EXCEPT ![l] = @ + 1]
  /\ UNCHANGED <<received, released>>

\* One packet may complete an item of several messages, on both streams, and
\* acknowledge items of the opposite direction. Messages arrive in the order
\* they were sent, none twice, and none is released before it was received.
Transfer ==
  /\ \A l \in Lane :
       /\ \E n \in Len(received[l]) .. sent[l] : received'[l] = SubSeq(Queue[l], 1, n)
       /\ released'[l] \in released[l] .. Len(received[l])
  /\ DOMAIN received' = Lane /\ DOMAIN released' = Lane
  /\ UNCHANGED sent

Next == Transfer \/ \E l \in Lane : Send(l)

Spec == Init /\ [][Next]_channelVars

\* Whatever was given to the channel arrives.
AllArrives ==
  \A l \in Lane : \A n \in 1 .. Len(Queue[l]) :
    (sent[l] >= n) ~> (Len(received[l]) >= n)

=============================================================================
