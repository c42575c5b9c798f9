---------------------------- MODULE SplitPacket ----------------------------
(***************************************************************************)
(* Datagrams too long to be routed (engine/net_ws.cpp): NET_SendLong cuts  *)
(* them into split packets, the first of which are sent at once and the    *)
(* others from the queue of CQueuedPacketSender; NET_GetLong puts them     *)
(* together at the other end in the one entry it has per sender's address. *)
(*                                                                         *)
(* One channel sends, one socket receives. Data is the packet and number a *)
(* fragment holds, sizes are counted in fragments. Left out: the check of  *)
(* the range of the split size, which the sender's clamp keeps, and the    *)
(* limit of 1024 queued fragments.                                         *)
(***************************************************************************)
EXTENDS Integers, Sequences, SequencesExt, FiniteSets

CONSTANTS
  Packet,      \* the datagrams to be split
  Count,       \* [Packet -> Nat], how many fragments each has
  SplitSize,   \* [Packet -> Nat], size of a fragment when the packet is sent
  MaxSplits,   \* MAX_SPLITPACKET_SPLITS
  SplitRate,   \* net_splitrate, the fragments sent at once
  Nothing,     \* contents of a buffer nobody wrote
  MaxFaults    \* bound: faults of the network and breaks of the order of sending

ASSUME CountAssumption == Count \in [Packet -> 1 .. 127] \* above, PacketNumber is negative
ASSUME SizeAssumption == SplitSize \in [Packet -> Nat]
ASSUME LimitAssumption ==
  /\ MaxSplits \in Nat
  /\ \A p \in Packet : Count[p] <= MaxSplits
  /\ SplitRate \in Nat
  /\ MaxFaults \in Nat

VARIABLES
  sequence,    \* m_nSplitPacketSequence of the channel
  queued,      \* m_QueuedPackets, fragments that wait for their time to be sent
  net,         \* external: fragments under way, in the order sent
  entry,       \* CSplitPacketEntry of the sender's address
  sent,        \* history: the sequence number each packet was sent with, or 0
  delivered,   \* history: what NET_GetLong has returned
  faults       \* history: faults and breaks of order so far

vars == <<sequence, queued, net, entry, sent, delivered, faults>>

-----------------------------------------------------------------------------
(* Fragments *)

Signed16(i) == ((i + 32768) % 65536) - 32768
PacketID(number, count) == Signed16(number * 256 + count)
PacketNumber(d) == d.packetID \div 256   \* >> of a short keeps the sign
PacketCount(d) == d.packetID % 256
IsLast(d) == PacketNumber(d) = PacketCount(d) - 1

Fragment(p, s, k) ==
  [sequenceNumber |-> s, packetID |-> PacketID(k, Count[p]), splitSize |-> SplitSize[p],
   data |-> <<p, k>>]
Numbers(p) == 0 .. Count[p] - 1
Direct(p) == IF SplitRate < Count[p] THEN SplitRate ELSE Count[p]

\* Mutant: the first packet has the number 1.
FromZero == 0
\* m_nSplitPacketSequence is incremented before it is used.
InitialSequence == 1

FreshEntry ==
  [currentSequence |-> 0, splitCount |-> 0, totalSize |-> 0, expectedSize |-> 0,
   splitflags |-> [k \in 0 .. MaxSplits - 1 |-> -1],
   buffer |-> [k \in 0 .. MaxSplits - 1 |-> Nothing]]

Init ==
  /\ sequence = InitialSequence
  /\ queued = {}
  /\ net = <<>>
  /\ entry = FreshEntry
  /\ sent = [p \in Packet |-> 0]
  /\ delivered = {}
  /\ faults = 0

Fault == faults < MaxFaults /\ faults' = faults + 1
FaultUnless(regular) == IF regular THEN faults' = faults ELSE Fault

-----------------------------------------------------------------------------
(* Sending *)

\* Mutant: the queue is not looked at.
CanPacketAlways == TRUE
\* CanPacket, which most callers ask first: nothing of the channel is queued.
CanPacket == queued = {}

\* NET_SendLong, given how many fragments it sends at once and which it queues.
Split(p, direct, later) ==
  /\ sent[p] = 0
  /\ sequence' = sequence + 1
  /\ sent' = [sent EXCEPT ![p] = sequence + 1]
  /\ net' = net \o [k \in 1 .. direct |-> Fragment(p, sequence + 1, k - 1)]
  /\ queued' = queued \cup {Fragment(p, sequence + 1, k) : k \in later}
  /\ UNCHANGED <<entry, delivered>>

\* Reliable messages are also transmitted without asking CanPacket.
SendLong(p) ==
  /\ FaultUnless(CanPacket)
  /\ Split(p, Direct(p), Direct(p) .. Count[p] - 1)

\* NET_SendTo fails: the fragments that follow are neither sent nor queued.
SendFails(p) ==
  /\ Fault
  /\ \E direct \in 0 .. Direct(p) - 1 : Split(p, direct, {})

\* CQueuedPacketSender::Run, or NET_SendQueuedPackets without the thread.
SendQueued(d) ==
  /\ d \in queued
  /\ queued' = queued \ {d}
  /\ net' = Append(net, d)
  /\ UNCHANGED <<sequence, entry, sent, delivered, faults>>

\* CNetChan::Reset, as on a level change, or a new channel of the same address;
\* the queue of the sending thread is not cleared in either case.
Reset ==
  /\ Fault
  /\ sequence' = InitialSequence
  /\ UNCHANGED <<queued, net, entry, sent, delivered>>

-----------------------------------------------------------------------------
(* Receiving *)

\* Mutant: a new packet goes on with the count of the last one.
SwitchedKeepsCount(e, d) ==
  [e EXCEPT !.currentSequence = d.sequenceNumber, !.expectedSize = d.splitSize]

\* First packet in split series?
Switched(e, d) ==
  IF e.currentSequence = d.sequenceNumber THEN e
  ELSE [e EXCEPT !.currentSequence = d.sequenceNumber, !.splitCount = PacketCount(d),
                 !.expectedSize = d.splitSize]

\* Mutant: repeated fragments count like any other.
CountedAgain(e, d) ==
  [e EXCEPT !.totalSize = IF IsLast(d) THEN PacketCount(d) ELSE @, !.splitCount = @ - 1,
            !.splitflags[PacketNumber(d)] = d.sequenceNumber]

\* A fragment counts unless its flag says it has come before.
Counted(e, d) ==
  IF e.splitflags[PacketNumber(d)] = d.sequenceNumber THEN e
  ELSE [e EXCEPT !.totalSize = IF IsLast(d) THEN PacketCount(d) ELSE @,
                 !.splitCount = @ - 1,
                 !.splitflags[PacketNumber(d)] = d.sequenceNumber]

\* The data is copied whether the fragment counted or not.
Copied(e, d) == [e EXCEPT !.buffer[PacketNumber(d)] = d.data]

Delivery(e, s) ==
  [sequenceNumber |-> s, data |-> [k \in 0 .. e.totalSize - 1 |-> e.buffer[k]]]

InRange(d) == PacketNumber(d) < MaxSplits /\ PacketCount(d) <= MaxSplits

\* NET_GetLong.
GetLong(d) ==
  LET switched == Switched(entry, d)
      taken == Copied(Counted(switched, d), d)
  IN  IF ~InRange(d) THEN UNCHANGED <<entry, delivered>>
      ELSE IF switched.expectedSize # d.splitSize
      THEN entry' = switched /\ UNCHANGED delivered
      ELSE IF taken.splitCount <= 0
      THEN /\ entry' = [taken EXCEPT !.currentSequence = -1]
           /\ delivered' = delivered \cup {Delivery(taken, d.sequenceNumber)}
      ELSE entry' = taken /\ UNCHANGED delivered

\* A fragment arrives, in turn or before earlier ones, once or not for the last
\* time.
Receive(i) ==
  /\ i \in DOMAIN net
  /\ \/ /\ FaultUnless(i = 1)
        /\ net' = RemoveAt(net, i)
     \/ /\ Fault
        /\ net' = net
  /\ GetLong(net[i])
  /\ UNCHANGED <<sequence, queued, sent>>

\* External: the network loses a fragment.
Lose(i) ==
  /\ i \in DOMAIN net
  /\ Fault
  /\ net' = RemoveAt(net, i)
  /\ UNCHANGED <<sequence, queued, entry, sent, delivered>>

\* NET_DiscardStaleSplitpackets, SPLIT_PACKET_STALE_TIME after the last fragment.
DiscardStale ==
  /\ FaultUnless(net = <<>> /\ queued = {})
  /\ entry' = FreshEntry
  /\ UNCHANGED <<sequence, queued, net, sent, delivered>>

Next ==
  \/ \E p \in Packet : SendLong(p) \/ SendFails(p)
  \/ \E d \in queued : SendQueued(d)
  \/ \E i \in DOMAIN net : Receive(i) \/ Lose(i)
  \/ Reset
  \/ DiscardStale

Spec == Init /\ [][Next]_vars

-----------------------------------------------------------------------------
Slots == 0 .. MaxSplits - 1
Users(s) == {p \in Packet : sent[p] = s}
SentFragments ==
  UNION {{Fragment(p, sent[p], k) : k \in Numbers(p)} : p \in {q \in Packet : sent[q] # 0}}
InFlight == queued \cup {net[i] : i \in DOMAIN net}
Whole(p) == [k \in Numbers(p) |-> <<p, k>>]

\* Fragments are those of packets that were sent, and the sequence numbers the
\* receiver knows came with one.
TypeOK ==
  /\ sequence \in Nat \ {0}
  /\ sent \in [Packet -> Nat \ {1}]
  /\ queued \subseteq SentFragments
  /\ net \in Seq(SentFragments)
  /\ entry \in [currentSequence : Int, splitCount : Int, totalSize : Nat, expectedSize : Nat,
                splitflags : [Slots -> Int],
                buffer : [Slots -> (Packet \X Slots) \cup {Nothing}]]
  /\ \A s \in {entry.currentSequence} \cup {entry.splitflags[k] : k \in Slots} :
       s \in {-1, 0} \/ Users(s) # {}
  /\ \A d \in delivered : d.sequenceNumber # 0 /\ Users(d.sequenceNumber) # {}
  /\ faults \in 0 .. MaxFaults

\* The fragments missing from the packet being put together are those that
\* splitCount says, whatever was lost, repeated, reordered or interleaved with
\* it: the ones that count have all been copied since the entry turned to the
\* packet. Promised for sequence numbers used once.
CountsMissing ==
  \A p \in Packet :
    (/\ sent[p] # 0
     /\ Users(sent[p]) = {p}
     /\ entry.currentSequence = sent[p])
    => \E S \in SUBSET Numbers(p) :
         /\ \A k \in S : entry.buffer[k] = <<p, k>> /\ entry.splitflags[k] = sent[p]
         /\ entry.splitCount = Count[p] - Cardinality(S)
         /\ S # Numbers(p)
         /\ Count[p] - 1 \in S => entry.totalSize = Count[p]

\* NET_GetLong returns datagrams that were sent, whole and unmixed, unless their
\* sequence number was used twice: Reset starts the numbers again while the
\* receiver keeps flags and buffer.
DeliveredWhole ==
  \A d \in delivered : \A p \in Packet :
    Users(d.sequenceNumber) = {p} => d.data = Whole(p)

\* While callers ask CanPacket and the network behaves, no datagram is lost: the
\* fragments of one never push out those of another.
NothingLost ==
  faults = 0 =>
    \A p \in Packet :
      sent[p] # 0 =>
        \/ \E d \in delivered : d.data = Whole(p)
        \/ \E d \in InFlight : d.data[1] = p
=============================================================================
