--------------------------- MODULE MCNetChanLive ---------------------------
(***************************************************************************)
(* The channel over a network that loses at most MaxLosses datagrams, with *)
(* both ends sending one datagram per tick, turn by turn: what the frame   *)
(* loops of the two processes do while the connection is up. The sequence  *)
(* numbers leave time to send everything again after each loss.            *)
(***************************************************************************)
EXTENDS MCNetChan

CONSTANTS MaxLosses,  \* datagrams the network may lose
          LastSend    \* messages are handed to the channel up to this tick

VARIABLE losses

liveVars == <<vars, losses>>

LiveInit == Init /\ losses = 0

\* The two ends tick at the same rate, the server first.
Turn(p) == IF p = Server THEN outSeq[Server] = outSeq[Client]
                         ELSE outSeq[Server] > outSeq[Client]

Hand(p) ==
  /\ Turn(p) /\ outSeq[p] <= LastSend
  /\ SendNetMsg(p) \/ SendFile(p)
  /\ UNCHANGED losses

\* A datagram that was not processed when the next one leaves is lost.
Unread(p) == \E d \in net[Other(p)] : Fresh(Other(p), d)
Tick(p) ==
  /\ Turn(p)
  /\ losses' = losses + (IF Unread(p) THEN 1 ELSE 0)
  /\ losses' <= MaxLosses
  /\ SendDatagram(p)

Receive(p) ==
  /\ \E q \in net[p] : ProcessPacket(p, q)
  /\ UNCHANGED losses

LiveNext == \E p \in Peer : Hand(p) \/ Tick(p) \/ Receive(p)

\* The frame loop of a connected end keeps calling Transmit, and the socket
\* keeps being polled for datagrams.
LiveSpec == LiveInit /\ [][LiveNext]_liveVars /\ WF_liveVars(LiveNext)

\* Every message handed to SendNetMsg, SendData or SendFile reaches the handler
\* at the other end, however the losses fall.
AllArrives ==
  \A p \in Peer : \A n \in 1 .. Len(Outbox[p][NORMAL]) :
    (sent[p][NORMAL] >= n) ~> (Len(delivered[Other(p)][NORMAL]) >= n)

\* In the end no subchannel is taken, nothing waits and no buffer is half full:
\* HasPendingReliableData turns false, which a disconnect waits for.
EventuallyIdle ==
  <>[](\A p \in Peer, s \in Stream :
         /\ InState(sub[p], "FREE") = SubChannel
         /\ Held(p, s) = 0
         /\ receiveList[p][s] = NoBuffer)
=============================================================================
