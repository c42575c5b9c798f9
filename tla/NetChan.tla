------------------------------ MODULE NetChan ------------------------------
(***************************************************************************)
(* The reliable half of CNetChan (engine/net_chan.cpp): two peers exchange *)
(* UDP datagrams that the network may lose, duplicate, delay and reorder;  *)
(* reliable data is cut into fragments, the fragments ride on up to        *)
(* MAX_SUBCHANNELS alternating-bit subchannels, and every packet carries   *)
(* one acknowledge bit per subchannel plus the last sequence number seen.  *)
(*                                                                         *)
(* One action is one call of the engine into the channel: SendNetMsg,      *)
(* SendFile, SendDatagram (Transmit), SetChoked, ProcessPacket and Clear.  *)
(*                                                                         *)
(* Left out: the TCP stream (net_notcp is true by default, so asTCP is     *)
(* false), unreliable and voice payload, checksums, flow statistics, and   *)
(* single-player channels, whose payload size exceeds 7 fragments.         *)
(***************************************************************************)
EXTENDS Integers, Sequences, FiniteSets, FiniteSetsExt

CONSTANTS
  Client, Server,     \* the two ends of the channel
  NumSubChannels,     \* MAX_SUBCHANNELS
  MaxFragments,       \* m_MaxReliablePayloadSize / FRAGMENT_SIZE
  FragmentSize,       \* FRAGMENT_SIZE, in the 4 byte units buffers are padded to
  MaxPayload,         \* NET_MAX_PAYLOAD, in the same units
  Msg,                \* reliable net messages and files
  Bytes,              \* [Msg -> Nat], their sizes
  Files,              \* the members of Msg that are files on disk
  ClearMsgs,          \* messages whose handler calls Clear on its own channel
  FailMsgs,           \* messages whose handler returns false
  Outbox,             \* [Peer -> [Stream -> Seq(Msg)]], what each peer sends, in order
  Compression,        \* m_bUseCompression && net_compresspackets
  MinCompress,        \* the 512 bytes under which a block is not compressed
  BackgroundModes,    \* values m_bFileBackgroundTranmission takes
  Junk,               \* contents of a fragment slot nobody wrote
  Garbled,            \* a "message" parsed from fragments of different messages
  MaxSeq,             \* bound: datagrams a peer sends or chokes
  MaxDelay,           \* bound: how many sequence numbers a datagram may lag
  MaxClears,          \* bound: spontaneous calls of Clear
  MaxChokes           \* bound: calls of SetChoked

Peer == {Client, Server}
Other(p) == IF p = Client THEN Server ELSE Client
NORMAL == 0           \* FRAG_NORMAL_STREAM
FILE == 1             \* FRAG_FILE_STREAM
Stream == {NORMAL, FILE}
SubChannel == 0 .. NumSubChannels - 1

ASSUME PeerAssumption == Client # Server
ASSUME SizeAssumption ==
  /\ NumSubChannels \in Nat \ {0}
  /\ MaxFragments \in 1 .. 7
  /\ FragmentSize \in Nat \ {0}
ASSUME MessageAssumption ==
  /\ Bytes \in [Msg -> Nat \ {0}]
  /\ Files \subseteq Msg
  /\ ClearMsgs \subseteq Msg
  /\ FailMsgs \subseteq Msg
  /\ Garbled \notin Msg
  /\ Outbox \in [Peer -> [Stream -> Seq(Msg)]]
ASSUME BoundAssumption ==
  /\ MaxSeq \in [Peer -> Nat]
  /\ MaxDelay \in Nat
  /\ MaxClears \in [Peer -> Nat]
  /\ MaxChokes \in Nat

VARIABLES
  outSeq,         \* m_nOutSequenceNr
  inSeq,          \* m_nInSequenceNr
  outAck,         \* m_nOutSequenceNrAck
  outRel,         \* m_nOutReliableState, a bit per subchannel
  inRel,          \* m_nInReliableState
  sub,            \* m_SubChannels
  streamReliable, \* m_StreamReliable, the messages not yet cut into fragments
  waitingList,    \* m_WaitingList
  receiveList,    \* m_ReceiveList
  net,            \* external: datagrams under way to a peer
  sent,           \* history: messages of the Outbox handed to the channel
  delivered,      \* history: messages the receiving handlers have seen
  clears,         \* history: spontaneous Clears so far
  chokes,         \* history: SetChoked calls so far
  torn            \* history: peers that stored a part of a packet and then dropped it

headerVars == <<outSeq, inSeq, outAck, outRel, inRel, sub>>
dataVars == <<streamReliable, waitingList, receiveList>>
historyVars == <<sent, delivered, clears, chokes, torn>>
vars == <<headerVars, dataVars, net, historyVars>>

-----------------------------------------------------------------------------
(* Data *)

\* subChannel_s::Free
FreeSub == [state |-> "FREE", seq |-> -1,
            start |-> [s \in Stream |-> -1], num |-> [s \in Stream |-> 0]]

\* FLIPBIT
Flipped(bits, c) == [bits EXCEPT ![c] = 1 - bits[c]]

\* BYTES2FRAGMENTS
NumFragments(bytes) == (bytes + FragmentSize - 1) \div FragmentSize

\* A new dataFragments_t of a waiting list.
NewItem(msgs, bytes, isFile) ==
  [msgs |-> msgs, bytes |-> bytes, file |-> isFile, compressed |-> FALSE,
   acked |-> 0, pending |-> 0]

TotalBytes(msgs) == SumFunction([i \in DOMAIN msgs |-> Bytes[msgs[i]]])

\* No reliable data for a stream in a packet; m_ReceiveList without a buffer.
NoData == [item |-> <<>>]
NoBuffer == [item |-> <<>>]
NoSub == -1

InitialSub == [c \in SubChannel |-> FreeSub]
NoLists(value) == [p \in Peer |-> [s \in Stream |-> value]]

\* CNetChan::Setup on both sides.
Init ==
  /\ outSeq = [p \in Peer |-> 1]
  /\ inSeq = [p \in Peer |-> 0]
  /\ outAck = [p \in Peer |-> 0]
  /\ outRel = [p \in Peer |-> [c \in SubChannel |-> 0]]
  /\ inRel = [p \in Peer |-> [c \in SubChannel |-> 0]]
  /\ sub = [p \in Peer |-> InitialSub]
  /\ streamReliable = [p \in Peer |-> <<>>]
  /\ waitingList = NoLists(<<>>)
  /\ receiveList = NoLists(NoBuffer)
  /\ net = [p \in Peer |-> {}]
  /\ sent = NoLists(0)
  /\ delivered = NoLists(<<>>)
  /\ clears = [p \in Peer |-> 0]
  /\ chokes = 0
  /\ torn = {}

-----------------------------------------------------------------------------
(* Handing data to the channel *)

\* SendNetMsg, SendData: the message is appended to m_StreamReliable if it fits.
SendNetMsg(p) ==
  /\ sent[p][NORMAL] < Len(Outbox[p][NORMAL])
  /\ LET m == Outbox[p][NORMAL][sent[p][NORMAL] + 1]
     IN  /\ TotalBytes(streamReliable[p]) + Bytes[m] <= MaxPayload
         /\ streamReliable' = [streamReliable EXCEPT ![p] = Append(@, m)]
  /\ sent' = [sent EXCEPT ![p][NORMAL] = @ + 1]
  /\ UNCHANGED <<headerVars, waitingList, receiveList, net, delivered, clears, chokes, torn>>

\* SendFile and EnqueueVeryLargeAsyncTransfer: one waiting item of its own.
SendFile(p) ==
  /\ sent[p][FILE] < Len(Outbox[p][FILE])
  /\ LET m == Outbox[p][FILE][sent[p][FILE] + 1]
     IN  waitingList' = [waitingList EXCEPT ![p][FILE] =
                           Append(@, NewItem(<<m>>, Bytes[m], m \in Files))]
  /\ sent' = [sent EXCEPT ![p][FILE] = @ + 1]
  /\ UNCHANGED <<headerVars, streamReliable, receiveList, net, delivered, clears, chokes, torn>>

\* SetChoked: a tick without a datagram still uses up a sequence number.
SetChoked(p) ==
  /\ chokes < MaxChokes
  /\ outSeq[p] <= MaxSeq[p]
  /\ outSeq' = [outSeq EXCEPT ![p] = @ + 1]
  /\ chokes' = chokes + 1
  /\ UNCHANGED <<inSeq, outAck, outRel, inRel, sub, dataVars, net, sent, delivered, clears, torn>>

-----------------------------------------------------------------------------
(* Sending a datagram *)

\* CreateFragmentsFromBuffer: the last item absorbs the new messages, unless
\* it is the head, which may be on the wire already, or would grow too large.
MayMerge(list, bytes) ==
  /\ Len(list) > 1
  /\ list[Len(list)].bytes + bytes < MaxPayload

CreateFragments(list, msgs) ==
  LET bytes == TotalBytes(msgs)
      n == Len(list)
      last == list[n]
  IN  IF msgs = <<>> THEN list
      ELSE IF MayMerge(list, bytes)
      THEN [list EXCEPT ![n] = NewItem(last.msgs \o msgs, last.bytes + bytes, FALSE)]
      ELSE Append(list, NewItem(msgs, bytes, FALSE))

\* Mutant: a head whose fragments are on the wire shrinks.
MayCompressStarted(item) ==
  /\ Compression
  /\ ~item.compressed
  /\ item.bytes >= MinCompress

\* CompressFragments: a head not yet started may shrink; how far, and whether
\* the compressor succeeds at all, depends on the data.
MayCompress(item) ==
  /\ Compression
  /\ ~item.compressed
  /\ item.bytes >= MinCompress
  /\ item.acked = 0 /\ item.pending = 0

CompressFragments(list) ==
  IF list = <<>> THEN {list}
  ELSE {list} \cup
       {[list EXCEPT ![1].bytes = b, ![1].compressed = TRUE] :
          b \in {b \in 1 .. list[1].bytes - 1 : MayCompress(list[1])}}

CompressedLists(lists) ==
  {f \in [Stream -> UNION {CompressFragments(lists[s]) : s \in Stream}] :
     \A s \in Stream : f[s] \in CompressFragments(lists[s])}

SmallerOf(a, b) == IF a < b THEN a ELSE b
\* Mutant: fragments on the wire are given to the next subchannel as well.
AckedOnly(item) == item.acked
SentFragments(item) == item.acked + item.pending
Unsent(list) ==
  IF list = <<>> THEN 0 ELSE NumFragments(list[1].bytes) - SentFragments(list[1])

\* UpdateSubChannels: how many fragments of each stream's head a free
\* subchannel takes; files get what the messages left, in background mode one.
TakeFragments(lists, background) ==
  LET normal == SmallerOf(MaxFragments, Unsent(lists[NORMAL]))
      room == SmallerOf(MaxFragments - normal, Unsent(lists[FILE]))
  IN  [s \in Stream |-> IF s = NORMAL THEN normal
                        ELSE IF background THEN SmallerOf(1, room) ELSE room]

\* GetFreeSubChannel and the search of SendSubChannelData take the first one.
InState(subs, state) == {c \in SubChannel : subs[c].state = state}
First(S) == CHOOSE c \in S : \A d \in S : c <= d

Allocates(p, take) ==
  /\ InState(sub[p], "FREE") # {}
  /\ \E s \in Stream : take[s] > 0

\* m_SubChannels after UpdateSubChannels.
UpdatedSub(p, lists, take) ==
  IF Allocates(p, take)
  THEN [sub[p] EXCEPT ![First(InState(sub[p], "FREE"))] =
          [state |-> "TOSEND", seq |-> 0, num |-> take,
           start |-> [s \in Stream |->
                        IF take[s] > 0 THEN SentFragments(lists[s][1]) ELSE -1]]]
  ELSE sub[p]

\* m_nOutReliableState after UpdateSubChannels.
UpdatedOutRel(p, take) ==
  IF Allocates(p, take)
  THEN Flipped(outRel[p], First(InState(sub[p], "FREE")))
  ELSE outRel[p]

\* Mutant: fragments are given to a subchannel and not noted as pending.
UpdatedNothing(p, lists, take) == lists
\* pendingFragments after UpdateSubChannels.
UpdatedWaiting(p, lists, take) ==
  IF Allocates(p, take)
  THEN [s \in Stream |-> IF take[s] > 0
                         THEN [lists[s] EXCEPT ![1].pending = @ + take[s]]
                         ELSE lists[s]]
  ELSE lists

\* What SendSubChannelData writes for one stream of subchannel record c. A
\* single block is the case start = 0, num = frags.
StreamData(c, list, s) ==
  IF c.num[s] = 0 THEN NoData
  ELSE [item |-> list[1].msgs, frags |-> NumFragments(list[1].bytes),
        file |-> list[1].file, start |-> c.start[s], num |-> c.num[s]]

ReliableData(subs, lists) ==
  [s \in Stream |-> IF InState(subs, "TOSEND") = {} THEN NoData
                    ELSE StreamData(subs[First(InState(subs, "TOSEND"))], lists[s], s)]

\* m_SubChannels after SendSubChannelData: the first one to send is on the wire.
TransmittedSub(p, subs) ==
  IF InState(subs, "TOSEND") = {} THEN subs
  ELSE [subs EXCEPT ![First(InState(subs, "TOSEND"))].state = "WAITING",
                    ![First(InState(subs, "TOSEND"))].seq = outSeq[p]]

Packet(p, subs, lists) ==
  [seq |-> outSeq[p], ack |-> inSeq[p], rel |-> inRel[p],
   sub |-> IF InState(subs, "TOSEND") = {} THEN NoSub ELSE First(InState(subs, "TOSEND")),
   data |-> ReliableData(subs, lists)]

\* External: the network. A datagram is lost when it is never processed; it may
\* be delivered late, out of order and again, but not after MaxDelay later ones.
Travelling(packets, seq) == {q \in packets : q.seq + MaxDelay >= seq}

\* SendDatagram: flush m_StreamReliable, give fragments to a free subchannel,
\* put the first subchannel with something to send into the packet.
SendDatagram(p) ==
  /\ outSeq[p] <= MaxSeq[p]
  /\ LET flushed == [waitingList[p] EXCEPT ![NORMAL] = CreateFragments(@, streamReliable[p])]
     IN  \E lists \in CompressedLists(flushed), background \in BackgroundModes :
           LET take == TakeFragments(lists, background)
               subs == UpdatedSub(p, lists, take)
               updated == UpdatedWaiting(p, lists, take)
           IN  /\ sub' = [sub EXCEPT ![p] = TransmittedSub(p, subs)]
               /\ outRel' = [outRel EXCEPT ![p] = UpdatedOutRel(p, take)]
               /\ waitingList' = [waitingList EXCEPT ![p] = updated]
               /\ net' = [net EXCEPT ![Other(p)] =
                                   Travelling(@ \cup {Packet(p, subs, updated)}, outSeq[p])]
  /\ outSeq' = [outSeq EXCEPT ![p] = @ + 1]
  /\ streamReliable' = [streamReliable EXCEPT ![p] = <<>>]
  /\ UNCHANGED <<inSeq, outAck, inRel, receiveList, historyVars>>

-----------------------------------------------------------------------------
(* Clearing the channel *)

\* Mutant: data on the wire is forgotten at once.
ClearedAtOnce(subs) ==
  [c \in SubChannel |-> IF subs[c].state \in {"TOSEND", "WAITING"} THEN FreeSub ELSE subs[c]]
\* Mutant: the bit of data not sent stays flipped.
ClearedKeepsBits(subs, rel) == rel

\* Clear: data not sent is forgotten and its bit flipped back, data on the
\* wire leaves its subchannel dirty until the peer's bit tells what became of it.
ClearedSub(subs) ==
  [c \in SubChannel |-> CASE subs[c].state = "TOSEND" -> FreeSub
                          [] subs[c].state = "WAITING" -> [subs[c] EXCEPT !.state = "DIRTY"]
                          [] OTHER -> subs[c]]
ClearedOutRel(subs, rel) ==
  [c \in SubChannel |-> IF subs[c].state = "TOSEND" THEN 1 - rel[c] ELSE rel[c]]

\* Clear called by the engine: Inactivate on the server, SetSignonState on the client.
Clear(p) ==
  /\ clears[p] < MaxClears[p]
  /\ clears' = [clears EXCEPT ![p] = @ + 1]
  /\ sub' = [sub EXCEPT ![p] = ClearedSub(@)]
  /\ outRel' = [outRel EXCEPT ![p] = ClearedOutRel(sub[p], @)]
  /\ waitingList' = [waitingList EXCEPT ![p] = [s \in Stream |-> <<>>]]
  /\ receiveList' = [receiveList EXCEPT ![p] = [s \in Stream |-> NoBuffer]]
  /\ streamReliable' = [streamReliable EXCEPT ![p] = <<>>]
  /\ UNCHANGED <<outSeq, inSeq, outAck, inRel, net, sent, delivered, chokes, torn>>

-----------------------------------------------------------------------------
(* Receiving: ProcessPacketHeader *)

\* Mutant: the last packet is accepted again.
FreshOrRepeated(p, q) == q.seq >= inSeq[p]
\* Stale and duplicated packets are discarded.
Fresh(p, q) == q.seq > inSeq[p]

Acknowledged(p, q, c) == outRel[p][c] = q.rel[c]

\* "reliable state invalid": the loop over the subchannels stops here.
InvalidState(p, q) ==
  {c \in SubChannel : /\ Acknowledged(p, q, c)
                      /\ sub[p][c].state # "DIRTY"
                      /\ sub[p][c].seq > q.ack}
ValidHeader(p, q) == InvalidState(p, q) = {}
Reached(p, q, c) == \A d \in InvalidState(p, q) : c < d

\* The peer has seen the packet that carried the subchannel and not taken it.
Missed(p, q, c) == ~Acknowledged(p, q, c) /\ sub[p][c].seq <= q.ack

\* Mutant: what the peer has missed is not sent again.
HeaderSubNoResend(p, q) ==
  [c \in SubChannel |->
     IF Reached(p, q, c) /\ sub[p][c].state \in {"WAITING", "DIRTY"} /\
        (Acknowledged(p, q, c) \/ (Missed(p, q, c) /\ sub[p][c].state = "DIRTY"))
     THEN FreeSub ELSE sub[p][c]]

HeaderSub(p, q) ==
  [c \in SubChannel |->
     CASE ~Reached(p, q, c) -> sub[p][c]
       [] /\ Reached(p, q, c) /\ Acknowledged(p, q, c)
          /\ sub[p][c].state \in {"WAITING", "DIRTY"} -> FreeSub
       [] /\ Reached(p, q, c) /\ Missed(p, q, c)
          /\ sub[p][c].state = "WAITING" -> [sub[p][c] EXCEPT !.state = "TOSEND"]
       [] /\ Reached(p, q, c) /\ Missed(p, q, c)
          /\ sub[p][c].state = "DIRTY" -> FreeSub
       [] OTHER -> sub[p][c]]

\* A dirty subchannel whose data was lost takes its bit back.
HeaderOutRel(p, q) ==
  [c \in SubChannel |->
     IF Reached(p, q, c) /\ Missed(p, q, c) /\ sub[p][c].state = "DIRTY"
     THEN 1 - outRel[p][c] ELSE outRel[p][c]]

\* The numbers of fragments of stream s that the subchannels carry.
Numbers(p, s) == [c \in SubChannel |-> sub[p][c].num[s]]

\* Mutant: fragments of an item that Clear dropped count as well.
AckedFragmentsDirty(p, q, s) ==
  SumFunctionOnSet(Numbers(p, s),
                   {c \in SubChannel : /\ Reached(p, q, c) /\ Acknowledged(p, q, c)
                                       /\ sub[p][c].state \in {"WAITING", "DIRTY"}})

\* The subchannels the header acknowledges.
AckedSubs(p, q) ==
  {c \in SubChannel : /\ Reached(p, q, c) /\ Acknowledged(p, q, c)
                      /\ sub[p][c].state = "WAITING"}
\* Fragments of stream s that the header acknowledges.
AckedFragments(p, q, s) == SumFunctionOnSet(Numbers(p, s), AckedSubs(p, q))

\* Mutant: the head stays.
CheckWaitingListNever(list, ack) ==
  IF list # <<>> /\ ack > 0 /\ list[1].acked > NumFragments(list[1].bytes)
  THEN Tail(list) ELSE list

\* CheckWaitingList: the head leaves once all its fragments are acknowledged.
CheckWaitingList(list, ack) ==
  IF list # <<>> /\ ack > 0 /\ list[1].acked = NumFragments(list[1].bytes)
  THEN Tail(list) ELSE list

HeaderWaiting(p, q) ==
  [s \in Stream |->
     LET n == AckedFragments(p, q, s)
         list == waitingList[p][s]
         acked == IF list = <<>> \/ n = 0 THEN list
                  ELSE [list EXCEPT ![1].acked = @ + n, ![1].pending = @ - n]
     IN  IF ValidHeader(p, q) THEN CheckWaitingList(acked, q.ack) ELSE acked]

-----------------------------------------------------------------------------
(* Receiving: fragments *)

\* ReadSubChannelData: fragment 0 brings the header and a new buffer, any
\* later fragment goes into whatever buffer there is. (Its length is computed
\* from that buffer's header; in a buffer of another item the rest of the packet
\* would be read from the wrong place, which the model does not follow.)
Opened(r, d) ==
  IF d.start = 0
  THEN [item |-> d.item, frags |-> d.frags, file |-> d.file, acked |-> 0,
        buf |-> [i \in 0 .. d.frags - 1 |-> Junk]]
  ELSE r
CanRead(r, d) ==
  Opened(r, d) # NoBuffer /\ d.start + d.num <= Opened(r, d).frags
ReadData(r, d) ==
  IF CanRead(r, d)
  THEN [Opened(r, d) EXCEPT !.acked = @ + d.num,
                            !.buf = [i \in DOMAIN @ |->
                                       IF i \in d.start .. d.start + d.num - 1
                                       THEN d.item ELSE @[i]]]
  ELSE Opened(r, d)

Carries(q, s) == q.data[s] # NoData
ReadFails(p, q, s) == Carries(q, s) /\ ~CanRead(receiveList[p][s], q.data[s])
ReadsAll(p, q) == \A s \in Stream : ~ReadFails(p, q, s)

\* m_ReceiveList after the read loop of ProcessPacket, which stops at the
\* first stream that fails and keeps what the streams before it stored.
ReadLists(p, q) ==
  [s \in Stream |->
     IF Carries(q, s) /\ \A t \in Stream : t < s => ~ReadFails(p, q, t)
     THEN ReadData(receiveList[p][s], q.data[s]) ELSE receiveList[p][s]]

-----------------------------------------------------------------------------
(* Receiving: delivery *)

Complete(r) == r # NoBuffer /\ r.acked = r.frags
Overfull(r) == r # NoBuffer /\ r.acked > r.frags
Intact(r) == \A i \in DOMAIN r.buf : r.buf[i] = r.item

\* _ProcessMessages runs the handlers up to the first that stops it.
Stoppers(r) == {i \in DOMAIN r.item : r.item[i] \in ClearMsgs \cup FailMsgs}
Handled(r) ==
  IF ~Intact(r) THEN <<Garbled>>
  ELSE IF r.file \/ Stoppers(r) = {} THEN r.item
  ELSE SubSeq(r.item, 1, First(Stoppers(r)))

\* What processing a complete buffer returns; mixed contents parse or not.
Outcomes(r) ==
  IF ~Complete(r) \/ r.file THEN {"ok"}
  ELSE IF ~Intact(r) THEN {"ok", "fail"}
  ELSE IF Stoppers(r) = {} THEN {"ok"}
  ELSE IF r.item[First(Stoppers(r))] \in ClearMsgs THEN {"clear"} ELSE {"fail"}

Results(taken, r) == IF taken THEN Outcomes(r) ELSE {"ok"}

\* CheckReceivingList stream after stream, until one returns false.
Stops(r, outcome) == Overfull(r) \/ (Complete(r) /\ outcome # "ok")
Checked(lists, outcomes, s) ==
  \A t \in Stream : t < s => ~Stops(lists[t], outcomes[t])
Processes(lists, outcomes, s) == Checked(lists, outcomes, s) /\ Complete(lists[s])
Clears(lists, outcomes) ==
  \E s \in Stream : Processes(lists, outcomes, s) /\ outcomes[s] = "clear"

\* Mutant: a processed buffer is not freed.
CheckedListsKept(lists, outcomes) ==
  [s \in Stream |-> IF Clears(lists, outcomes) THEN NoBuffer ELSE lists[s]]

\* A handler that fails leaves the buffer allocated; Clear frees them all.
CheckedLists(lists, outcomes) ==
  [s \in Stream |->
     IF \/ Clears(lists, outcomes)
        \/ Processes(lists, outcomes, s) /\ outcomes[s] = "ok"
     THEN NoBuffer ELSE lists[s]]

\* External: the network may deliver q again; the model forgets datagrams q has
\* overtaken, which ProcessPacketHeader would discard.
Duplicable(packets, q) == {r \in packets : r.seq >= q.seq}

\* ProcessPacket: header, fragments, delivery; a handler may call Clear.
ProcessPacket(p, q) ==
  /\ Fresh(p, q)
  /\ LET reliable == ValidHeader(p, q) /\ q.sub # NoSub
         taken == reliable /\ ReadsAll(p, q)
         lists == IF reliable THEN ReadLists(p, q) ELSE receiveList[p]
     IN  /\ inRel' = [inRel EXCEPT ![p] =
                        IF taken THEN Flipped(@, q.sub) ELSE @]
         /\ \E normal \in Results(taken, lists[NORMAL]), file \in Results(taken, lists[FILE]) :
              LET outcomes == [s \in Stream |-> IF s = NORMAL THEN normal ELSE file]
                  cleared == taken /\ Clears(lists, outcomes)
              IN  /\ sub' = [sub EXCEPT ![p] = IF cleared THEN ClearedSub(HeaderSub(p, q))
                                               ELSE HeaderSub(p, q)]
                  /\ outRel' = [outRel EXCEPT ![p] =
                                  IF cleared THEN ClearedOutRel(HeaderSub(p, q), HeaderOutRel(p, q))
                                  ELSE HeaderOutRel(p, q)]
                  /\ waitingList' = [waitingList EXCEPT ![p] =
                                       IF cleared THEN [s \in Stream |-> <<>>]
                                       ELSE HeaderWaiting(p, q)]
                  /\ streamReliable' = [streamReliable EXCEPT ![p] = IF cleared THEN <<>> ELSE @]
                  /\ receiveList' = [receiveList EXCEPT ![p] =
                                       IF taken THEN CheckedLists(lists, outcomes) ELSE lists]
                  /\ delivered' = [delivered EXCEPT ![p] =
                                     [s \in Stream |->
                                        IF taken /\ Processes(lists, outcomes, s)
                                        THEN @[s] \o Handled(lists[s]) ELSE @[s]]]
         /\ torn' = IF ~taken /\ lists # receiveList[p] THEN torn \cup {p} ELSE torn
  /\ inSeq' = [inSeq EXCEPT ![p] = IF ValidHeader(p, q) THEN q.seq ELSE @]
  /\ outAck' = [outAck EXCEPT ![p] = IF ValidHeader(p, q) THEN q.ack ELSE @]
  /\ net' = [net EXCEPT ![p] = Duplicable(@, q)]
  /\ UNCHANGED <<outSeq, sent, clears, chokes>>

Next ==
  \E p \in Peer :
    \/ SendNetMsg(p)
    \/ SendFile(p)
    \/ SetChoked(p)
    \/ SendDatagram(p)
    \/ Clear(p)
    \/ \E q \in net[p] : ProcessPacket(p, q)

Spec == Init /\ [][Next]_vars

-----------------------------------------------------------------------------
(* Correctness *)

Bit == {0, 1}
SubState == {"FREE", "TOSEND", "WAITING", "DIRTY"}

\* m_SubChannels of one peer, as far as ProcessPacketHeader looks at it.
WellFormed(subs) ==
  /\ DOMAIN subs = SubChannel
  /\ \A c \in SubChannel :
       /\ DOMAIN subs[c] = {"state", "seq", "start", "num"}
       /\ subs[c].state \in SubState
       /\ subs[c].seq \in Int

\* The part of the state ProcessPacketHeader works on.
HeaderTypeOK ==
  /\ outSeq \in [Peer -> Nat]
  /\ inSeq \in [Peer -> Nat]
  /\ outAck \in [Peer -> Nat]
  /\ outRel \in [Peer -> [SubChannel -> Bit]]
  /\ inRel \in [Peer -> [SubChannel -> Bit]]
  /\ DOMAIN sub = Peer
  /\ \A p \in Peer : WellFormed(sub[p])
  /\ DOMAIN net = Peer
  /\ \A p \in Peer : \A q \in net[p] :
       /\ q.seq \in Nat /\ q.ack \in Nat
       /\ q.rel \in [SubChannel -> Bit]
       /\ q.sub \in SubChannel \cup {NoSub}

DataTypeOK ==
  /\ streamReliable \in [Peer -> Seq(Msg)]
  /\ \A p \in Peer, s \in Stream :
       /\ \A i \in DOMAIN waitingList[p][s] :
            LET item == waitingList[p][s][i]
            IN  /\ item.msgs \in Seq(Msg) \ {<<>>}
                /\ item.bytes \in Nat \ {0}
                /\ item.acked \in Nat /\ item.pending \in Nat
       /\ receiveList[p][s] # NoBuffer =>
            LET r == receiveList[p][s]
            IN  /\ r.acked \in Nat \ {0} /\ r.frags \in Nat \ {0}
                /\ DOMAIN r.buf = 0 .. r.frags - 1
       /\ \A c \in SubChannel : sub[p][c].num[s] \in 0 .. MaxFragments
       /\ sent[p][s] \in 0 .. Len(Outbox[p][s])
       /\ delivered[p][s] \in Seq(Msg \cup {Garbled})
  /\ clears \in [Peer -> Nat] /\ chokes \in 0 .. MaxChokes
  /\ torn \subseteq Peer

\* Type invariant: every variable of the channel keeps its type.
TypeOK == HeaderTypeOK /\ DataTypeOK

\* ProcessPacketHeader never meets a packet it refuses as "reliable state
\* invalid", and never the free subchannel whose bit differs that it asserts
\* against, whatever the network did to the packets in between.
HeaderAlwaysValid ==
  \A p \in Peer : \A q \in net[p] :
    Fresh(p, q) =>
      /\ ValidHeader(p, q)
      /\ \A c \in SubChannel : Missed(p, q, c) => sub[p][c].state # "FREE"

\* Sequence numbers and acknowledgements never run ahead of the other end.
SequenceInv ==
  \A p \in Peer :
    /\ inSeq[p] < outSeq[Other(p)]
    /\ \A q \in net[p] : q.seq < outSeq[Other(p)] /\ q.ack <= inSeq[Other(p)]
    /\ \A q, r \in net[p] : q.seq < r.seq => q.ack <= r.ack
    /\ \A q, r \in net[p] : q.seq = r.seq => q = r

\* A datagram on its way to Other(p) that carries subchannel c of p, and a
\* datagram on its way to p, that ProcessPacketHeader would not discard.
FreshData(p, c) == {d \in net[Other(p)] : Fresh(Other(p), d) /\ d.sub = c}
FreshReply(p) == {q \in net[p] : Fresh(p, q)}

\* How the out bit of p, the in bit of the other end and the datagrams in
\* between agree, in every state of a subchannel.
SubChannelInv(p, c) ==
  LET n == sub[p][c].seq
      inSync == outRel[p][c] = inRel[Other(p)][c]
  IN  /\ \A d \in FreshData(p, c) :
           sub[p][c].state \in {"WAITING", "DIRTY"} /\ d.seq = n /\ ~inSync
      /\ sub[p][c].state = "FREE" =>
           n = -1 /\ inSync /\ \A q \in FreshReply(p) : Acknowledged(p, q, c)
      /\ sub[p][c].state = "TOSEND" =>
           ~inSync /\ \A q \in FreshReply(p) : ~Acknowledged(p, q, c)
      /\ sub[p][c].state \in {"WAITING", "DIRTY"} =>
           /\ n \in Nat /\ n < outSeq[p]
           /\ inSync => inSeq[Other(p)] >= n
           /\ \A q \in FreshReply(p) :
                Acknowledged(p, q, c) <=> (q.ack >= n /\ inSync)

\* The alternating bits: a free subchannel has its bits in agreement, data on
\* the way is always data of the current bit, and an acknowledge bit is never
\* taken for one of an earlier use of the subchannel.
BitsAgree == SequenceInv /\ \A p \in Peer, c \in SubChannel : SubChannelInv(p, c)

InFlight(p, s) ==
  {c \in SubChannel : sub[p][c].state \in {"TOSEND", "WAITING"} /\ sub[p][c].num[s] > 0}
FragmentRange(p, c, s) ==
  sub[p][c].start[s] .. sub[p][c].start[s] + sub[p][c].num[s] - 1

\* The pendingFragments of a head are exactly the fragments its subchannels
\* carry, each fragment by one of them and none of them acknowledged before;
\* no subchannel outlives the item it carries (m_WaitingList[j][0] exists).
PendingIsInFlight ==
  \A p \in Peer, s \in Stream :
    IF waitingList[p][s] = <<>> THEN InFlight(p, s) = {}
    ELSE LET head == waitingList[p][s][1]
             flight == InFlight(p, s)
         IN  /\ head.pending = SumFunctionOnSet(Numbers(p, s), flight)
             /\ SentFragments(head) <= NumFragments(head.bytes)
             /\ \A c \in flight : FragmentRange(p, c, s) \subseteq 0 .. SentFragments(head) - 1
             /\ \A c, d \in flight : c # d => FragmentRange(p, c, s) \cap FragmentRange(p, d, s) = {}

\* A fragment is stored only among the fragments of its own item.
FragmentsOfOneItem ==
  \A p \in Peer, s \in Stream :
    LET r == receiveList[p][s]
    IN  r # NoBuffer => \A i \in DOMAIN r.buf : r.buf[i] \in {Junk, r.item}

\* ProcessPacket: "error while reading fragments, drop whole packet". What a dropped
\* packet carries counts when it comes again, so no message is handled twice (runs
\* without Clear and without failing handlers).
DroppedDataHandledOnce ==
  \A p \in Peer, s \in Stream : \A i, j \in DOMAIN delivered[p][s] :
    delivered[p][s][i] = delivered[p][s][j] => i = j

\* Whatever is lost, repeated, overtaken or cleared away: what the handlers of a
\* stream have seen is a part of what was put into it, in that order and each
\* message once, but for what a buffer yields that Clear left with pieces of two
\* items. Promised while every packet is stored whole or not at all and no handler
\* fails: the buffer of a failed item is handled anew with the next reliable packet.
HandledInOrder ==
  \A p \in Peer, s \in Stream : Other(p) \notin torn =>
    LET put == Outbox[p][s]
        seen == delivered[Other(p)][s]
        handled == {i \in DOMAIN seen : seen[i] # Garbled}
    IN  /\ \A i \in handled : \E k \in 1 .. sent[p][s] : seen[i] = put[k]
        /\ \A i, j \in handled : i < j =>
             \E k, l \in 1 .. sent[p][s] : k < l /\ seen[i] = put[k] /\ seen[j] = put[l]

\* Messages the sender still holds: m_StreamReliable and the waiting list.
Held(p, s) ==
  SumFunction([i \in DOMAIN waitingList[p][s] |-> Len(waitingList[p][s][i].msgs)])
    + (IF s = NORMAL THEN Len(streamReliable[p]) ELSE 0)

\* The channel implements a lossless queue per direction and stream: handlers
\* see the messages in order, each once, and an item leaves the waiting list
\* only after its messages have been handled (runs without Clear and without
\* failing handlers, one stream per direction).
Channel == INSTANCE ReliableChannel WITH
  Lane <- Peer \X Stream,
  Queue <- [l \in Peer \X Stream |-> Outbox[l[1]][l[2]]],
  sent <- [l \in Peer \X Stream |-> sent[l[1]][l[2]]],
  received <- [l \in Peer \X Stream |-> delivered[Other(l[1])][l[2]]],
  released <- [l \in Peer \X Stream |-> sent[l[1]][l[2]] - Held(l[1], l[2])]

ImplementsChannel == Channel!Spec

=============================================================================
