--------------------------- MODULE NetChanProofs ----------------------------
(***************************************************************************)
(* Proofs about NetChan, for every number of subchannels, message, size,   *)
(* delay and bound. First the alternating bits, on the invariant           *)
(* HeaderTypeOK and BitsAgree: sequence numbers and acknowledgements never *)
(* overtake, and per subchannel the out bit, the other end's in bit and    *)
(* every datagram under way agree. The argument about one subchannel is    *)
(* made on values (Agree), one lemma per kind of step; one lemma per       *)
(* action then lifts it to the state. The second part is about fragments.  *)
(* The third part proves that NetChan implements ReliableChannel while     *)
(* nobody clears the channel, no handler fails and a direction uses one    *)
(* stream: the receive buffer holds exactly the fragments of the sender's  *)
(* head that left a subchannel or have its bit taken (Follows), and the    *)
(* messages handled, on the waiting list and buffered behind it are the    *)
(* queue, cut in three (Placed).                                           *)
(***************************************************************************)
EXTENDS NetChan, FiniteSums, SequenceTheorems

\* First really is the least element: GetFreeSubChannel and the search of
\* SendSubChannelData find a subchannel of the state they look for.
LEMMA FirstIsLeast ==
  ASSUME NEW S \in SUBSET Nat, S # {}
  PROVE  First(S) \in S /\ \A d \in S : First(S) <= d
<1> DEFINE Below == {0 .. x : x \in S}
           R == StrictSubsetOrdering(Nat)
<1>1. Below \subseteq FiniteSubsetsOf(Nat) /\ Below # {}
  <2>1. \A x \in S : 0 .. x \in SUBSET Nat /\ IsFiniteSet(0 .. x)
    BY FS_Interval
  <2> QED BY <2>1 DEF FiniteSubsetsOf
<1>2. IsWellFoundedOn(R, FiniteSubsetsOf(Nat))
  BY FS_StrictSubsetOrderingWellFounded
<1>3. \E t \in Below : \A u \in Below : ~(<<u, t>> \in R)
  BY <1>1, <1>2, WFMin
<1>4. PICK x \in S : \A y \in S : ~(<<0 .. y, 0 .. x>> \in R)
  BY <1>3
<1>5. ASSUME NEW y \in S, y < x
      PROVE  FALSE
  <2>1. 0 .. y \subseteq 0 .. x /\ x \in 0 .. x /\ x \notin 0 .. y
    BY <1>5
  <2>2. 0 .. y # 0 .. x
    BY <2>1
  <2>3. 0 .. y \in SUBSET Nat /\ 0 .. x \in SUBSET Nat
    OBVIOUS
  <2> QED BY <1>4, <2>1, <2>2, <2>3 DEF StrictSubsetOrdering
<1>6. \A y \in S : x <= y
  BY <1>5
<1> QED
  BY <1>4, <1>6 DEF First

-----------------------------------------------------------------------------
(* SubChannelInv as a relation of values: st, n and o are the state, the     *)
(* sequence number and the out bit of a subchannel c, i the in bit of the    *)
(* other end, rin the last sequence number that end has seen, out the next   *)
(* one of the sender, D the fresh data for c and Q the fresh replies.        *)
Agree(st, n, o, i, rin, out, D, Q, c) ==
  /\ \A d \in D : st \in {"WAITING", "DIRTY"} /\ d.seq = n /\ o # i
  /\ st = "FREE" => n = -1 /\ o = i /\ \A q \in Q : o = q.rel[c]
  /\ st = "TOSEND" => o # i /\ \A q \in Q : o # q.rel[c]
  /\ st \in {"WAITING", "DIRTY"} =>
       /\ n \in Nat /\ n < out
       /\ o = i => rin >= n
       /\ \A q \in Q : (o = q.rel[c]) <=> (q.ack >= n /\ o = i)

\* SubChannelInv is Agree of the values of the state.
LEMMA AgreeIsSubChannelInv ==
  ASSUME NEW p \in Peer, NEW c \in SubChannel
  PROVE  SubChannelInv(p, c) <=>
           Agree(sub[p][c].state, sub[p][c].seq, outRel[p][c], inRel[Other(p)][c],
                 inSeq[Other(p)], outSeq[p], FreshData(p, c), FreshReply(p), c)
BY DEF SubChannelInv, Agree, Acknowledged

\* Fewer datagrams, and a sender that has counted on, disturb nothing.
LEMMA AgreeShrinks ==
  ASSUME NEW st, NEW n, NEW o, NEW i, NEW rin \in Nat, NEW out \in Nat, NEW D, NEW Q, NEW c,
         Agree(st, n, o, i, rin, out, D, Q, c),
         NEW rin2 \in Nat, rin2 >= rin, NEW out2 \in Nat, out2 >= out,
         NEW D2 \in SUBSET D, NEW Q2 \in SUBSET Q
  PROVE  Agree(st, n, o, i, rin2, out2, D2, Q2, c)
BY DEF Agree

\* Clear.
LEMMA AgreeCleared ==
  ASSUME NEW st \in SubState, NEW n, NEW o \in Bit, NEW i \in Bit, NEW rin, NEW out,
         NEW D, NEW Q, NEW c, \A q \in Q : q.rel[c] \in Bit,
         Agree(st, n, o, i, rin, out, D, Q, c)
  PROVE  Agree(CASE st = "TOSEND" -> "FREE" [] st = "WAITING" -> "DIRTY" [] OTHER -> st,
               IF st = "TOSEND" THEN -1 ELSE n,
               IF st = "TOSEND" THEN 1 - o ELSE o, i, rin, out, D, Q, c)
<1>1. CASE st = "TOSEND"
  BY <1>1 DEF Agree, Bit
<1>2. CASE st = "WAITING"
  BY <1>2 DEF Agree, Bit
<1>3. CASE st \in {"FREE", "DIRTY"}
  BY <1>3 DEF Agree, Bit
<1> QED
  BY <1>1, <1>2, <1>3 DEF SubState

\* The header of a reply q, when the later replies Q2 have acknowledged at
\* least as much: a subchannel acknowledged, missed, or neither.
LEMMA AgreeAcknowledged ==
  ASSUME NEW st \in {"WAITING", "DIRTY"}, NEW n \in Int, NEW o \in Bit, NEW i \in Bit,
         NEW rin \in Nat, NEW out \in Nat, NEW D, NEW Q, NEW c,
         Agree(st, n, o, i, rin, out, D, Q, c), \A r \in Q : r.ack \in Nat,
         NEW q \in Q, o = q.rel[c], NEW Q2 \in SUBSET Q, \A r \in Q2 : r.ack >= q.ack
  PROVE  Agree("FREE", -1, o, i, rin, out, D, Q2, c)
<1>1. o = i /\ q.ack >= n /\ D = {}
  BY DEF Agree
<1>2. \A r \in Q2 : o = r.rel[c]
  <2> TAKE r \in Q2
  <2>1. r.ack >= n
    BY <1>1
  <2> QED BY <1>1, <2>1 DEF Agree
<1> QED
  BY <1>1, <1>2 DEF Agree

\* A subchannel the peer has seen and not taken: waiting ones are sent again,
\* dirty ones become free and take their bit back.
LEMMA AgreeMissed ==
  ASSUME NEW st \in {"WAITING", "DIRTY"}, NEW n \in Int, NEW o \in Bit, NEW i \in Bit,
         NEW rin \in Nat, NEW out \in Nat, NEW D, NEW Q, NEW c,
         Agree(st, n, o, i, rin, out, D, Q, c),
         \A r \in Q : r.rel[c] \in Bit /\ r.ack \in Nat,
         \A d \in D : d.seq \in Nat /\ d.seq > rin,
         NEW q \in Q, o # q.rel[c], n <= q.ack, q.ack <= rin,
         NEW Q2 \in SUBSET Q, \A r \in Q2 : r.ack >= q.ack
  PROVE  /\ Agree("TOSEND", n, o, i, rin, out, D, Q2, c)
         /\ Agree("FREE", -1, 1 - o, i, rin, out, D, Q2, c)
<1>1. o # i /\ D = {}
  BY DEF Agree
<1>2. \A r \in Q2 : o # r.rel[c]
  BY <1>1 DEF Agree
<1>3. 1 - o = i /\ \A r \in Q2 : 1 - o = r.rel[c]
  BY <1>1, <1>2 DEF Bit
<1> QED
  BY <1>1, <1>2, <1>3 DEF Agree

\* UpdateSubChannels takes a free subchannel and flips its bit.
LEMMA AgreeAllocated ==
  ASSUME NEW n, NEW o \in Bit, NEW i \in Bit, NEW rin, NEW out, NEW D, NEW Q, NEW c,
         \A q \in Q : q.rel[c] \in Bit,
         Agree("FREE", n, o, i, rin, out, D, Q, c)
  PROVE  Agree("TOSEND", 0, 1 - o, i, rin, out, D, Q, c)
<1>1. o = i /\ D = {} /\ 1 - o # o
  BY DEF Agree, Bit
<1>2. \A q \in Q : 1 - o # q.rel[c]
  BY DEF Agree, Bit
<1> QED
  BY <1>1, <1>2 DEF Agree

\* SendSubChannelData puts the subchannel into the datagram numbered out.
LEMMA AgreeTransmitted ==
  ASSUME NEW n, NEW o, NEW i, NEW rin \in Nat, NEW out \in Nat, NEW D, NEW Q, NEW c,
         Agree("TOSEND", n, o, i, rin, out, D, Q, c),
         NEW d, d.seq = out, NEW D2 \in SUBSET (D \cup {d})
  PROVE  Agree("WAITING", out, o, i, rin, out + 1, D2, Q, c)
BY DEF Agree

\* The other end sends a reply with its current bits and sequence number.
LEMMA AgreeReplied ==
  ASSUME NEW st \in SubState, NEW n, NEW o, NEW i, NEW rin \in Nat, NEW out, NEW D, NEW Q, NEW c,
         Agree(st, n, o, i, rin, out, D, Q, c),
         NEW q, q.rel[c] = i, q.ack = rin, NEW Q2 \in SUBSET (Q \cup {q})
  PROVE  Agree(st, n, o, i, rin, out, D, Q2, c)
<1>1. CASE st = "FREE"
  BY <1>1 DEF Agree
<1>2. CASE st = "TOSEND"
  BY <1>2 DEF Agree
<1>3. CASE st \in {"WAITING", "DIRTY"}
  BY <1>3 DEF Agree
<1> QED
  BY <1>1, <1>2, <1>3 DEF SubState

\* The other end takes the data of d and flips its in bit.
LEMMA AgreeTaken ==
  ASSUME NEW st \in SubState, NEW n, NEW o \in Bit, NEW i \in Bit, NEW rin \in Nat, NEW out,
         NEW D, NEW Q, NEW c,
         Agree(st, n, o, i, rin, out, D, Q, c),
         \A q \in Q : q.ack \in Nat /\ q.ack <= rin,
         NEW d \in D, d.seq \in Nat, d.seq > rin,
         NEW D2 \in SUBSET D, \A e \in D2 : e.seq > d.seq
  PROVE  Agree(st, n, o, 1 - i, d.seq, out, D2, Q, c)
<1>1. st \in {"WAITING", "DIRTY"} /\ d.seq = n /\ o # i
  BY DEF Agree
<1>2. D2 = {}
  BY <1>1 DEF Agree
<1>3. o = 1 - i
  BY <1>1 DEF Bit
<1>4. \A q \in Q : o # q.rel[c] /\ ~(q.ack >= n)
  BY <1>1 DEF Agree
<1> QED
  BY <1>1, <1>2, <1>3, <1>4 DEF Agree

-----------------------------------------------------------------------------
(* The inductive invariant *)

IInv == HeaderTypeOK /\ BitsAgree

\* Setup on both ends establishes the invariant.
LEMMA InitIInv == Init => IInv
<1> SUFFICES ASSUME Init PROVE IInv
  OBVIOUS
<1>1. HeaderTypeOK
  BY SizeAssumption DEF Init, HeaderTypeOK, WellFormed, Bit, SubState, InitialSub, FreeSub
<1>2. SequenceInv
  BY DEF Init, SequenceInv, Other, Peer
<1>3. \A p \in Peer, c \in SubChannel : SubChannelInv(p, c)
  BY DEF Init, SubChannelInv, InitialSub, FreeSub, FreshData, FreshReply, Other, Peer
<1> QED
  BY <1>1, <1>2, <1>3 DEF IInv, BitsAgree

\* Handing data to the channel touches no header variable.
LEMMA HeaderUntouched ==
  ASSUME IInv, UNCHANGED <<headerVars, net>>
  PROVE  IInv'
<1>1. HeaderTypeOK'
  BY DEF IInv, headerVars, HeaderTypeOK
<1>2. SequenceInv'
  BY DEF IInv, BitsAgree, headerVars, SequenceInv
<1>3. \A p \in Peer, c \in SubChannel : SubChannelInv(p, c)'
  BY DEF IInv, BitsAgree, headerVars, SubChannelInv, FreshData, FreshReply, Fresh, Acknowledged
<1> QED
  BY <1>1, <1>2, <1>3 DEF IInv, BitsAgree

\* A choked tick preserves the invariant.
LEMMA SetChokedIInv ==
  ASSUME IInv, NEW p \in Peer, SetChoked(p)
  PROVE  IInv'
<1> USE DEF IInv, BitsAgree
<1>1. outSeq' \in [Peer -> Nat] /\ \A r \in Peer : outSeq'[r] >= outSeq[r]
  BY DEF SetChoked, HeaderTypeOK
<1>2. UNCHANGED <<inSeq, outAck, outRel, inRel, sub, net>>
  BY DEF SetChoked
<1>3. HeaderTypeOK'
  BY <1>1, <1>2 DEF HeaderTypeOK
<1>4. SequenceInv'
  BY <1>1, <1>2 DEF SequenceInv, HeaderTypeOK, Other, Peer
<1>5. ASSUME NEW r \in Peer, NEW c \in SubChannel
      PROVE  SubChannelInv(r, c)'
  <2>1. Agree(sub[r][c].state, sub[r][c].seq, outRel[r][c], inRel[Other(r)][c],
              inSeq[Other(r)], outSeq[r], FreshData(r, c), FreshReply(r), c)
    BY <1>5, AgreeIsSubChannelInv
  <2>2. Agree(sub[r][c].state, sub[r][c].seq, outRel[r][c], inRel[Other(r)][c],
              inSeq[Other(r)], outSeq'[r], FreshData(r, c), FreshReply(r), c)
    BY <1>1, <2>1, AgreeShrinks DEF HeaderTypeOK, Other, Peer
  <2> QED
    BY <1>2, <2>2 DEF SubChannelInv, Agree, FreshData, FreshReply, Fresh, Acknowledged
<1> QED
  BY <1>3, <1>4, <1>5


\* What Clear does to one subchannel.
LEMMA ClearedValues ==
  ASSUME NEW subs, WellFormed(subs), NEW rel \in [SubChannel -> Bit]
  PROVE  /\ WellFormed(ClearedSub(subs))
         /\ ClearedOutRel(subs, rel) \in [SubChannel -> Bit]
         /\ \A c \in SubChannel :
              /\ ClearedSub(subs)[c].state =
                   (CASE subs[c].state = "TOSEND" -> "FREE"
                      [] subs[c].state = "WAITING" -> "DIRTY"
                      [] OTHER -> subs[c].state)
              /\ ClearedSub(subs)[c].seq = IF subs[c].state = "TOSEND" THEN -1 ELSE subs[c].seq
              /\ ClearedOutRel(subs, rel)[c] =
                   IF subs[c].state = "TOSEND" THEN 1 - rel[c] ELSE rel[c]
<1> USE DEF WellFormed
<1>1. DOMAIN ClearedSub(subs) = SubChannel
  BY DEF ClearedSub
<1>2. ClearedOutRel(subs, rel) \in [SubChannel -> Bit]
  BY DEF ClearedOutRel, Bit
<1>3. ASSUME NEW c \in SubChannel
      PROVE  ClearedOutRel(subs, rel)[c] =
                   IF subs[c].state = "TOSEND" THEN 1 - rel[c] ELSE rel[c]
  BY <1>3 DEF ClearedOutRel
<1>4. ASSUME NEW c \in SubChannel, subs[c].state = "TOSEND"
      PROVE  ClearedSub(subs)[c] = FreeSub
  BY <1>4 DEF ClearedSub
<1>5. ASSUME NEW c \in SubChannel, subs[c].state = "WAITING"
      PROVE  ClearedSub(subs)[c] = [subs[c] EXCEPT !.state = "DIRTY"]
  BY <1>5 DEF ClearedSub
<1>6. ASSUME NEW c \in SubChannel, subs[c].state \notin {"TOSEND", "WAITING"}
      PROVE  ClearedSub(subs)[c] = subs[c]
  BY <1>6 DEF ClearedSub
<1>7. ASSUME NEW c \in SubChannel
      PROVE  /\ DOMAIN ClearedSub(subs)[c] = {"state", "seq", "start", "num"}
             /\ ClearedSub(subs)[c].state =
                   (CASE subs[c].state = "TOSEND" -> "FREE"
                      [] subs[c].state = "WAITING" -> "DIRTY"
                      [] OTHER -> subs[c].state)
             /\ ClearedSub(subs)[c].state \in SubState
             /\ ClearedSub(subs)[c].seq = IF subs[c].state = "TOSEND" THEN -1 ELSE subs[c].seq
             /\ ClearedSub(subs)[c].seq \in Int
  <2>1. CASE subs[c].state = "TOSEND"
    BY <1>4, <2>1 DEF FreeSub, SubState
  <2>2. CASE subs[c].state = "WAITING"
    BY <1>5, <2>2 DEF SubState
  <2>3. CASE subs[c].state \notin {"TOSEND", "WAITING"}
    BY <1>6, <2>3
  <2> QED BY <2>1, <2>2, <2>3
<1> QED
  BY <1>1, <1>2, <1>3, <1>7

\* Clear preserves the invariant.
LEMMA ClearIInv ==
  ASSUME IInv, NEW p \in Peer, Clear(p)
  PROVE  IInv'
<1> USE DEF IInv, BitsAgree
<1>1. /\ sub' = [sub EXCEPT ![p] = ClearedSub(sub[p])]
      /\ outRel' = [outRel EXCEPT ![p] = ClearedOutRel(sub[p], outRel[p])]
      /\ UNCHANGED <<outSeq, inSeq, outAck, inRel, net>>
  BY DEF Clear
<1>2. WellFormed(sub[p]) /\ outRel[p] \in [SubChannel -> Bit]
  BY DEF HeaderTypeOK
<1>3. /\ sub'[p] = ClearedSub(sub[p]) /\ outRel'[p] = ClearedOutRel(sub[p], outRel[p])
      /\ WellFormed(ClearedSub(sub[p]))
      /\ ClearedOutRel(sub[p], outRel[p]) \in [SubChannel -> Bit]
  BY <1>1, <1>2, ClearedValues DEF HeaderTypeOK
<1>4. HeaderTypeOK'
  <2>1. \A r \in Peer : WellFormed(sub'[r])
    BY <1>1, <1>3 DEF HeaderTypeOK
  <2>2. \A r \in Peer : WellFormed(sub[r])'
    BY <2>1 DEF WellFormed
  <2> QED
    BY <1>1, <1>3, <2>2 DEF HeaderTypeOK
<1>5. SequenceInv'
  BY <1>1 DEF SequenceInv
<1>6. ASSUME NEW r \in Peer, NEW c \in SubChannel
      PROVE  SubChannelInv(r, c)'
  <2>1. Agree(sub[r][c].state, sub[r][c].seq, outRel[r][c], inRel[Other(r)][c],
              inSeq[Other(r)], outSeq[r], FreshData(r, c), FreshReply(r), c)
    BY <1>6, AgreeIsSubChannelInv
  <2>2. CASE r # p
    BY <1>1, <2>1, <2>2 DEF HeaderTypeOK, SubChannelInv, Agree, FreshData, FreshReply,
      Fresh, Acknowledged
  <2>3. CASE r = p
    <3>1. \A q \in FreshReply(r) : q.rel[c] \in Bit
      BY DEF HeaderTypeOK, FreshReply
    <3>2. inRel[Other(r)][c] \in Bit /\ outRel[r][c] \in Bit
      BY DEF HeaderTypeOK, Other, Peer
    <3>3. sub[r][c].state \in SubState
      BY <1>2, <2>3 DEF WellFormed
    <3>4. Agree(sub'[r][c].state, sub'[r][c].seq, outRel'[r][c], inRel[Other(r)][c],
                inSeq[Other(r)], outSeq[r], FreshData(r, c), FreshReply(r), c)
      BY <1>2, <1>3, <2>1, <2>3, <3>1, <3>2, <3>3, ClearedValues, AgreeCleared
    <3> QED
      BY <1>1, <3>4 DEF SubChannelInv, Agree, FreshData, FreshReply, Fresh, Acknowledged
  <2> QED BY <2>2, <2>3
<1> QED
  BY <1>4, <1>5, <1>6

-----------------------------------------------------------------------------
(* ProcessPacket *)

\* What a valid header does to one subchannel.
LEMMA HeaderValues ==
  ASSUME NEW p \in Peer, NEW q, WellFormed(sub[p]), outRel[p] \in [SubChannel -> Bit],
         ValidHeader(p, q)
  PROVE  /\ WellFormed(HeaderSub(p, q))
         /\ HeaderOutRel(p, q) \in [SubChannel -> Bit]
         /\ \A c \in SubChannel :
              LET st == sub[p][c].state
                  n == sub[p][c].seq
                  o == outRel[p][c]
                  st2 == HeaderSub(p, q)[c].state
                  n2 == HeaderSub(p, q)[c].seq
                  o2 == HeaderOutRel(p, q)[c]
              IN  /\ o = q.rel[c] /\ st \in {"WAITING", "DIRTY"} => st2 = "FREE" /\ n2 = -1 /\ o2 = o
                  /\ o # q.rel[c] /\ n <= q.ack /\ st = "WAITING" => st2 = "TOSEND" /\ n2 = n /\ o2 = o
                  /\ o # q.rel[c] /\ n <= q.ack /\ st = "DIRTY" => st2 = "FREE" /\ n2 = -1 /\ o2 = 1 - o
                  /\ (st \in {"FREE", "TOSEND"} \/ (o # q.rel[c] /\ ~(n <= q.ack)))
                       => st2 = st /\ n2 = n /\ o2 = o
<1> DEFINE S(c) == HeaderSub(p, q)[c]
<1>1. \A c \in SubChannel : Reached(p, q, c)
  BY DEF Reached, ValidHeader
<1>2. DOMAIN HeaderSub(p, q) = SubChannel
  BY DEF HeaderSub
<1>3. \A c \in SubChannel :
        HeaderOutRel(p, q)[c] = IF Missed(p, q, c) /\ sub[p][c].state = "DIRTY"
                                THEN 1 - outRel[p][c] ELSE outRel[p][c]
  BY <1>1 DEF HeaderOutRel
<1>4. HeaderOutRel(p, q) \in [SubChannel -> Bit]
  BY DEF HeaderOutRel, Bit
<1>5. ASSUME NEW c \in SubChannel, Acknowledged(p, q, c), sub[p][c].state \in {"WAITING", "DIRTY"}
      PROVE  S(c) = FreeSub
  BY <1>1, <1>5 DEF HeaderSub, Missed
<1>6. ASSUME NEW c \in SubChannel, Missed(p, q, c), sub[p][c].state = "WAITING"
      PROVE  S(c) = [sub[p][c] EXCEPT !.state = "TOSEND"]
  BY <1>1, <1>6 DEF HeaderSub, Missed
<1>7. ASSUME NEW c \in SubChannel, Missed(p, q, c), sub[p][c].state = "DIRTY"
      PROVE  S(c) = FreeSub
  BY <1>1, <1>7 DEF HeaderSub, Missed
<1>8. ASSUME NEW c \in SubChannel,
             \/ sub[p][c].state \in {"FREE", "TOSEND"}
             \/ ~Acknowledged(p, q, c) /\ ~Missed(p, q, c)
      PROVE  S(c) = sub[p][c]
  BY <1>1, <1>8 DEF HeaderSub, Missed
<1>9. ASSUME NEW c \in SubChannel
      PROVE  /\ DOMAIN S(c) = {"state", "seq", "start", "num"}
             /\ S(c).state \in SubState /\ S(c).seq \in Int
  <2>1. DOMAIN FreeSub = {"state", "seq", "start", "num"}
        /\ FreeSub.state \in SubState /\ FreeSub.seq \in Int
    BY DEF FreeSub, SubState
  <2> HIDE DEF S
  <2>2. CASE S(c) = FreeSub
    BY <2>1, <2>2
  <2>3. CASE S(c) = [sub[p][c] EXCEPT !.state = "TOSEND"]
    BY <2>3 DEF WellFormed, SubState
  <2>4. CASE S(c) = sub[p][c]
    BY <2>4 DEF WellFormed
  <2> QED
    BY <1>5, <1>6, <1>7, <1>8, <2>2, <2>3, <2>4 DEF WellFormed, SubState
<1>10. WellFormed(HeaderSub(p, q))
  BY <1>2, <1>9 DEF WellFormed
<1>11. ASSUME NEW c \in SubChannel, Acknowledged(p, q, c), sub[p][c].state \in {"WAITING", "DIRTY"}
       PROVE  S(c).state = "FREE" /\ S(c).seq = -1 /\ HeaderOutRel(p, q)[c] = outRel[p][c]
  BY <1>3, <1>5, <1>11 DEF FreeSub, Missed
<1>12. ASSUME NEW c \in SubChannel, Missed(p, q, c), sub[p][c].state = "WAITING"
       PROVE  /\ S(c).state = "TOSEND" /\ S(c).seq = sub[p][c].seq
              /\ HeaderOutRel(p, q)[c] = outRel[p][c]
  BY <1>3, <1>6, <1>12 DEF WellFormed
<1>13. ASSUME NEW c \in SubChannel, Missed(p, q, c), sub[p][c].state = "DIRTY"
       PROVE  S(c).state = "FREE" /\ S(c).seq = -1 /\ HeaderOutRel(p, q)[c] = 1 - outRel[p][c]
  BY <1>3, <1>7, <1>13 DEF FreeSub
<1>14. ASSUME NEW c \in SubChannel,
              \/ sub[p][c].state \in {"FREE", "TOSEND"}
              \/ ~Acknowledged(p, q, c) /\ ~Missed(p, q, c)
       PROVE  S(c) = sub[p][c] /\ HeaderOutRel(p, q)[c] = outRel[p][c]
  BY <1>3, <1>8, <1>14
<1> HIDE DEF S
<1>15. \A c \in SubChannel : S(c) = HeaderSub(p, q)[c]
  BY DEF S
<1> QED
  BY <1>4, <1>10, <1>11, <1>12, <1>13, <1>14, <1>15 DEF Missed, Acknowledged

\* A fresh packet always has a valid header: the safety the invariant is for.
LEMMA FreshIsValid ==
  ASSUME IInv, NEW p \in Peer, NEW q \in net[p], Fresh(p, q)
  PROVE  /\ ValidHeader(p, q)
         /\ \A c \in SubChannel : Missed(p, q, c) => sub[p][c].state # "FREE"
<1> SUFFICES ASSUME NEW c \in SubChannel
             PROVE  /\ ~(/\ Acknowledged(p, q, c)
                         /\ sub[p][c].state # "DIRTY"
                         /\ sub[p][c].seq > q.ack)
                    /\ Missed(p, q, c) => sub[p][c].state # "FREE"
  BY DEF ValidHeader, InvalidState
<1>1. q \in FreshReply(p) /\ q.ack \in Nat
  BY DEF FreshReply, IInv, HeaderTypeOK
<1>2. SubChannelInv(p, c)
  BY DEF IInv, BitsAgree
<1>3. sub[p][c].state \in SubState /\ sub[p][c].seq \in Int
  BY DEF IInv, HeaderTypeOK, WellFormed
<1>4. CASE sub[p][c].state = "FREE"
  BY <1>1, <1>2, <1>4 DEF SubChannelInv, Missed
<1>5. CASE sub[p][c].state = "TOSEND"
  BY <1>1, <1>2, <1>5 DEF SubChannelInv
<1>6. CASE sub[p][c].state \in {"WAITING", "DIRTY"}
  BY <1>1, <1>2, <1>3, <1>6 DEF SubChannelInv
<1> QED
  BY <1>3, <1>4, <1>5, <1>6 DEF SubState

\* The header variables after ProcessPacket, whatever the handlers do.
LEMMA ProcessPacketEffect ==
  ASSUME NEW p \in Peer, NEW q, ProcessPacket(p, q), ValidHeader(p, q)
  PROVE  \E taken, cleared \in BOOLEAN :
           /\ taken => q.sub # NoSub
           /\ sub' = [sub EXCEPT ![p] = IF cleared THEN ClearedSub(HeaderSub(p, q))
                                        ELSE HeaderSub(p, q)]
           /\ outRel' = [outRel EXCEPT ![p] =
                           IF cleared THEN ClearedOutRel(HeaderSub(p, q), HeaderOutRel(p, q))
                           ELSE HeaderOutRel(p, q)]
           /\ inRel' = [inRel EXCEPT ![p] =
                          IF taken THEN Flipped(inRel[p], q.sub)
                          ELSE inRel[p]]
           /\ inSeq' = [inSeq EXCEPT ![p] = q.seq]
           /\ outAck' = [outAck EXCEPT ![p] = q.ack]
           /\ net' = [net EXCEPT ![p] = Duplicable(net[p], q)]
           /\ outSeq' = outSeq
<1> DEFINE reliable == ValidHeader(p, q) /\ q.sub # NoSub
           taken == reliable /\ ReadsAll(p, q)
           lists == IF reliable THEN ReadLists(p, q) ELSE receiveList[p]
           outcomes(normal, file) == [s \in Stream |-> IF s = NORMAL THEN normal ELSE file]
           cleared(normal, file) == taken /\ Clears(lists, outcomes(normal, file))
<1>1. PICK normal \in Results(taken, lists[NORMAL]), file \in Results(taken, lists[FILE]) :
        /\ sub' = [sub EXCEPT ![p] = IF cleared(normal, file) THEN ClearedSub(HeaderSub(p, q))
                                     ELSE HeaderSub(p, q)]
        /\ outRel' = [outRel EXCEPT ![p] =
                        IF cleared(normal, file)
                        THEN ClearedOutRel(HeaderSub(p, q), HeaderOutRel(p, q))
                        ELSE HeaderOutRel(p, q)]
  BY Zenon DEF ProcessPacket
<1>2. inRel' = [inRel EXCEPT ![p] = IF taken THEN Flipped(inRel[p], q.sub)
                                    ELSE inRel[p]]
  BY SMT DEF ProcessPacket
<1>4. /\ inSeq' = [inSeq EXCEPT ![p] = q.seq]
      /\ outAck' = [outAck EXCEPT ![p] = q.ack]
      /\ net' = [net EXCEPT ![p] = Duplicable(net[p], q)]
      /\ outSeq' = outSeq
  BY SMT DEF ProcessPacket
<1>3. taken \in BOOLEAN /\ cleared(normal, file) \in BOOLEAN /\ (taken => q.sub # NoSub)
  BY Zenon DEF ReadsAll, Clears
<1> HIDE DEF taken, cleared
<1> QED
  BY <1>1, <1>2, <1>3, <1>4

\* There are exactly two ends.
LEMMA OtherOther == \A p \in Peer : Other(p) \in Peer /\ Other(p) # p /\ Other(Other(p)) = p
BY PeerAssumption DEF Other, Peer

\* ProcessPacket preserves the invariant.
LEMMA ProcessPacketIInv ==
  ASSUME IInv, NEW p \in Peer, NEW q \in net[p], ProcessPacket(p, q)
  PROVE  IInv'
<1>1. Fresh(p, q) /\ q.seq \in Nat /\ q.ack \in Nat /\ q.seq > inSeq[p]
  BY DEF ProcessPacket, Fresh, IInv, HeaderTypeOK
<1>2. ValidHeader(p, q)
  BY <1>1, FreshIsValid
<1>3. PICK taken \in BOOLEAN, cleared \in BOOLEAN :
           /\ taken => q.sub # NoSub
           /\ sub' = [sub EXCEPT ![p] = IF cleared THEN ClearedSub(HeaderSub(p, q))
                                        ELSE HeaderSub(p, q)]
           /\ outRel' = [outRel EXCEPT ![p] =
                           IF cleared THEN ClearedOutRel(HeaderSub(p, q), HeaderOutRel(p, q))
                           ELSE HeaderOutRel(p, q)]
           /\ inRel' = [inRel EXCEPT ![p] =
                          IF taken THEN Flipped(inRel[p], q.sub) ELSE inRel[p]]
           /\ inSeq' = [inSeq EXCEPT ![p] = q.seq]
           /\ outAck' = [outAck EXCEPT ![p] = q.ack]
           /\ net' = [net EXCEPT ![p] = Duplicable(net[p], q)]
           /\ outSeq' = outSeq
  BY <1>2, ProcessPacketEffect
<1>4. taken => q.sub \in SubChannel
  BY <1>3 DEF IInv, HeaderTypeOK
<1>5. WellFormed(sub[p]) /\ outRel[p] \in [SubChannel -> Bit] /\ inRel[p] \in [SubChannel -> Bit]
  BY DEF IInv, HeaderTypeOK
<1>6. WellFormed(HeaderSub(p, q)) /\ HeaderOutRel(p, q) \in [SubChannel -> Bit]
  BY <1>2, <1>5, HeaderValues
<1>7. /\ WellFormed(ClearedSub(HeaderSub(p, q)))
      /\ ClearedOutRel(HeaderSub(p, q), HeaderOutRel(p, q)) \in [SubChannel -> Bit]
  BY <1>6, ClearedValues
<1>8. /\ inSeq'[p] = q.seq /\ inSeq'[Other(p)] = inSeq[Other(p)]
      /\ net'[Other(p)] = net[Other(p)]
      /\ net'[p] \subseteq net[p] /\ \A r \in net'[p] : r.seq >= q.seq
      /\ sub'[Other(p)] = sub[Other(p)] /\ outRel'[Other(p)] = outRel[Other(p)]
      /\ inRel'[Other(p)] = inRel[Other(p)]
  BY <1>3, OtherOther DEF IInv, HeaderTypeOK, Duplicable
<1>9. inRel'[p] = IF taken THEN Flipped(inRel[p], q.sub) ELSE inRel[p]
  BY <1>3 DEF IInv, HeaderTypeOK
<1>10. HeaderTypeOK'
  <2>1. \A r \in Peer : WellFormed(sub'[r])
    BY <1>3, <1>6, <1>7 DEF IInv, HeaderTypeOK
  <2>2. \A r \in Peer : WellFormed(sub[r])'
    BY <2>1 DEF WellFormed
  <2>3. outRel' \in [Peer -> [SubChannel -> Bit]]
    BY <1>3, <1>6, <1>7 DEF IInv, HeaderTypeOK
  <2>4. taken => Flipped(inRel[p], q.sub) \in [SubChannel -> Bit]
    BY <1>4, <1>5 DEF Flipped, Bit
  <2>5. inRel' \in [Peer -> [SubChannel -> Bit]]
    BY <1>3, <1>5, <2>4 DEF IInv, HeaderTypeOK
  <2>6. outSeq' \in [Peer -> Nat] /\ inSeq' \in [Peer -> Nat] /\ outAck' \in [Peer -> Nat]
    BY <1>1, <1>3 DEF IInv, HeaderTypeOK
  <2>7. DOMAIN sub' = Peer /\ DOMAIN net' = Peer
    BY <1>3 DEF IInv, HeaderTypeOK
  <2>8. \A r \in Peer : net'[r] \subseteq net[r]
    BY <1>3 DEF IInv, HeaderTypeOK, Duplicable
  <2> QED
    BY <2>2, <2>3, <2>5, <2>6, <2>7, <2>8 DEF IInv, HeaderTypeOK
<1>11. SequenceInv'
  <2>1. \A r \in Peer : inSeq'[r] >= inSeq[r] /\ inSeq'[r] < outSeq[Other(r)]
    BY <1>1, <1>3 DEF IInv, HeaderTypeOK, BitsAgree, SequenceInv
  <2>2. \A r \in Peer : net'[r] \subseteq net[r]
    BY <1>3 DEF IInv, HeaderTypeOK, Duplicable
  <2>3. \A r \in Peer : \A d \in net'[r] : d.ack <= inSeq'[Other(r)]
    <3> TAKE r \in Peer
    <3> TAKE d \in net'[r]
    <3>1. d.ack <= inSeq[Other(r)] /\ d.ack \in Nat
      BY <2>2 DEF IInv, BitsAgree, SequenceInv, HeaderTypeOK
    <3>2. inSeq[Other(r)] <= inSeq'[Other(r)]
          /\ inSeq[Other(r)] \in Nat /\ inSeq'[Other(r)] \in Nat
      BY <1>1, <1>3, <2>1, OtherOther DEF IInv, HeaderTypeOK
    <3> QED BY <3>1, <3>2
  <2> QED
    BY <1>3, <2>1, <2>2, <2>3 DEF IInv, BitsAgree, SequenceInv
<1>12. ASSUME NEW c \in SubChannel
       PROVE  SubChannelInv(p, c)'
  <2> DEFINE D == FreshData(p, c)
             Q == FreshReply(p)
             Q2 == {r \in net'[p] : r.seq > q.seq}
             r0 == Other(p)
  <2>1. Agree(sub[p][c].state, sub[p][c].seq, outRel[p][c], inRel[r0][c], inSeq[r0],
              outSeq[p], D, Q, c)
    BY AgreeIsSubChannelInv DEF IInv, BitsAgree
  <2>2. /\ sub[p][c].state \in SubState /\ sub[p][c].seq \in Int
        /\ outRel[p][c] \in Bit /\ inRel[r0][c] \in Bit
        /\ inSeq[r0] \in Nat /\ outSeq[p] \in Nat
    BY <1>5, OtherOther DEF IInv, HeaderTypeOK, WellFormed
  <2>3. /\ \A r \in Q : r.rel[c] \in Bit /\ r.ack \in Nat
        /\ \A d \in D : d.seq \in Nat /\ d.seq > inSeq[r0]
    BY OtherOther DEF IInv, HeaderTypeOK, FreshReply, FreshData, Fresh
  <2>4. q \in Q /\ q.ack <= inSeq[r0]
    BY <1>1 DEF FreshReply, IInv, BitsAgree, SequenceInv
  <2>5. Q2 \in SUBSET Q /\ \A r \in Q2 : r.ack >= q.ack
    <3>1. Q2 \subseteq net[p] /\ \A r \in Q2 : r.seq > q.seq /\ r.seq \in Nat
      BY <1>8 DEF IInv, HeaderTypeOK
    <3>2. \A r \in Q2 : r.seq > inSeq[p]
      BY <1>1, <3>1 DEF IInv, HeaderTypeOK
    <3> QED
      BY <3>1, <3>2 DEF FreshReply, Fresh, IInv, BitsAgree, SequenceInv, HeaderTypeOK
  <2> HIDE DEF D, Q, Q2, r0
  <2>6. Agree(HeaderSub(p, q)[c].state, HeaderSub(p, q)[c].seq, HeaderOutRel(p, q)[c],
              inRel[r0][c], inSeq[r0], outSeq[p], D, Q2, c)
    <3> DEFINE st == sub[p][c].state
               n == sub[p][c].seq
               o == outRel[p][c]
               st2 == HeaderSub(p, q)[c].state
               n2 == HeaderSub(p, q)[c].seq
               o2 == HeaderOutRel(p, q)[c]
    <3>1. /\ o = q.rel[c] /\ st \in {"WAITING", "DIRTY"} => st2 = "FREE" /\ n2 = -1 /\ o2 = o
          /\ o # q.rel[c] /\ n <= q.ack /\ st = "WAITING" => st2 = "TOSEND" /\ n2 = n /\ o2 = o
          /\ o # q.rel[c] /\ n <= q.ack /\ st = "DIRTY" => st2 = "FREE" /\ n2 = -1 /\ o2 = 1 - o
          /\ (st \in {"FREE", "TOSEND"} \/ (o # q.rel[c] /\ ~(n <= q.ack)))
               => st2 = st /\ n2 = n /\ o2 = o
      BY <1>2, <1>5, HeaderValues
    <3>2. /\ Agree(st, n, o, inRel[r0][c], inSeq[r0], outSeq[p], D, Q, c)
          /\ st \in SubState /\ n \in Int /\ o \in Bit
      BY <2>1, <2>2
    <3> HIDE DEF st, n, o, st2, n2, o2
    <3>3. ASSUME st \in {"WAITING", "DIRTY"} /\ o = q.rel[c]
          PROVE  Agree(st2, n2, o2, inRel[r0][c], inSeq[r0], outSeq[p], D, Q2, c)
      <4>1. Agree("FREE", -1, o, inRel[r0][c], inSeq[r0], outSeq[p], D, Q2, c)
        BY <2>2, <2>3, <2>4, <2>5, <3>2, <3>3, AgreeAcknowledged
      <4>2. st2 = "FREE" /\ n2 = -1 /\ o2 = o
        BY <3>1, <3>3
      <4> QED BY <4>1, <4>2
    <3>4. ASSUME st \in {"WAITING", "DIRTY"} /\ o # q.rel[c] /\ n <= q.ack
          PROVE  Agree(st2, n2, o2, inRel[r0][c], inSeq[r0], outSeq[p], D, Q2, c)
      <4>1. /\ Agree("TOSEND", n, o, inRel[r0][c], inSeq[r0], outSeq[p], D, Q2, c)
            /\ Agree("FREE", -1, 1 - o, inRel[r0][c], inSeq[r0], outSeq[p], D, Q2, c)
        BY <2>2, <2>3, <2>4, <2>5, <3>2, <3>4, AgreeMissed
      <4>2. CASE st = "WAITING"
        BY <3>1, <3>4, <4>1, <4>2
      <4>3. CASE st = "DIRTY"
        <5>1. st2 = "FREE" /\ n2 = -1 /\ o2 = 1 - o
          BY <3>1, <3>4, <4>3
        <5> QED BY <4>1, <5>1
      <4> QED BY <3>4, <4>2, <4>3
    <3>5. ASSUME st \in {"FREE", "TOSEND"} \/ (o # q.rel[c] /\ ~(n <= q.ack))
          PROVE  Agree(st2, n2, o2, inRel[r0][c], inSeq[r0], outSeq[p], D, Q2, c)
      <4>1. Agree(st, n, o, inRel[r0][c], inSeq[r0], outSeq[p], D, Q2, c)
        <5>1. inSeq[r0] >= inSeq[r0] /\ outSeq[p] >= outSeq[p] /\ D \in SUBSET D
          BY <2>2
        <5> QED BY <2>2, <2>5, <3>2, <5>1, AgreeShrinks
      <4> QED BY <3>1, <3>5, <4>1
    <3>6. Agree(st2, n2, o2, inRel[r0][c], inSeq[r0], outSeq[p], D, Q2, c)
      <4>1. st \in {"WAITING", "DIRTY"} \/ st \in {"FREE", "TOSEND"}
        BY <3>2 DEF SubState
      <4> QED BY <3>3, <3>4, <3>5, <4>1
    <3> QED BY <3>6 DEF st2, n2, o2
  <2>7. Agree(sub'[p][c].state, sub'[p][c].seq, outRel'[p][c], inRel[r0][c], inSeq[r0],
              outSeq[p], D, Q2, c)
    <3>1. CASE cleared
      <4>1. sub'[p] = ClearedSub(HeaderSub(p, q))
            /\ outRel'[p] = ClearedOutRel(HeaderSub(p, q), HeaderOutRel(p, q))
        BY <1>3, <3>1 DEF IInv, HeaderTypeOK
      <4>2. HeaderSub(p, q)[c].state \in SubState /\ HeaderOutRel(p, q)[c] \in Bit
        BY <1>6 DEF WellFormed
      <4>3. \A r \in Q2 : r.rel[c] \in Bit
        BY <2>3, <2>5
      <4> QED
        BY <1>6, <2>2, <2>6, <4>1, <4>2, <4>3, ClearedValues, AgreeCleared
    <3>2. CASE ~cleared
      <4>1. sub'[p] = HeaderSub(p, q) /\ outRel'[p] = HeaderOutRel(p, q)
        BY <1>3, <3>2 DEF IInv, HeaderTypeOK
      <4> QED BY <2>6, <4>1
    <3> QED BY <3>1, <3>2
  <2>8. FreshData(p, c)' = D /\ FreshReply(p)' = Q2
    BY <1>8, OtherOther DEF FreshData, FreshReply, Fresh, D, Q2
  <2>9. Agree(sub[p][c].state, sub[p][c].seq, outRel[p][c], inRel[Other(p)][c],
              inSeq[Other(p)], outSeq[p], FreshData(p, c), FreshReply(p), c)'
    BY <1>3, <1>8, <2>7, <2>8 DEF Agree, r0
  <2> QED
    BY <2>9 DEF SubChannelInv, Agree, Acknowledged
<1>13. ASSUME NEW c \in SubChannel
       PROVE  SubChannelInv(Other(p), c)'
  <2> DEFINE r0 == Other(p)
             D == FreshData(r0, c)
             D2 == {d \in net'[p] : d.seq > q.seq /\ d.sub = c}
             Q == FreshReply(r0)
  <2>1. Agree(sub[r0][c].state, sub[r0][c].seq, outRel[r0][c], inRel[p][c], inSeq[p],
              outSeq[r0], D, Q, c)
    BY AgreeIsSubChannelInv, OtherOther DEF IInv, BitsAgree
  <2>2. /\ sub[r0][c].state \in SubState
        /\ outRel[r0][c] \in Bit /\ inRel[p][c] \in Bit
        /\ inSeq[p] \in Nat /\ outSeq[r0] \in Nat
    BY <1>5, OtherOther DEF IInv, HeaderTypeOK, WellFormed
  <2>3. D2 \in SUBSET D /\ \A e \in D2 : e.seq > q.seq
    <3>1. D2 \subseteq net[p] /\ \A d \in D2 : d.seq > q.seq /\ d.seq \in Nat
      BY <1>8 DEF IInv, HeaderTypeOK
    <3>2. \A d \in D2 : d.seq > inSeq[p]
      BY <1>1, <3>1 DEF IInv, HeaderTypeOK
    <3> QED
      BY <3>1, <3>2, OtherOther DEF FreshData, Fresh
  <2>4. \A r \in Q : r.ack \in Nat /\ r.ack <= inSeq[p]
    BY OtherOther DEF FreshReply, IInv, HeaderTypeOK, BitsAgree, SequenceInv
  <2>5. taken /\ q.sub = c => q \in D
    BY <1>1, OtherOther DEF FreshData
  <2> HIDE DEF D, Q, D2, r0
  <2>6. Agree(sub[r0][c].state, sub[r0][c].seq, outRel[r0][c], inRel'[p][c], q.seq,
              outSeq[r0], D2, Q, c)
    <3>1. CASE taken /\ q.sub = c
      <4>1. inRel'[p][c] = 1 - inRel[p][c]
        BY <1>5, <1>9, <3>1 DEF Flipped
      <4>2. q \in D /\ q.seq \in Nat /\ q.seq > inSeq[p]
        BY <1>1, <2>5, <3>1
      <4>3. Agree(sub[r0][c].state, sub[r0][c].seq, outRel[r0][c], 1 - inRel[p][c], q.seq,
                  outSeq[r0], D2, Q, c)
        BY <2>1, <2>2, <2>3, <2>4, <4>2, AgreeTaken
      <4> QED BY <4>1, <4>3
    <3>2. CASE ~(taken /\ q.sub = c)
      <4>1. inRel'[p][c] = inRel[p][c]
        BY <1>4, <1>5, <1>9, <3>2 DEF Flipped
      <4> QED
        BY <1>1, <2>1, <2>2, <2>3, <4>1, AgreeShrinks
    <3> QED BY <3>1, <3>2
  <2>7. FreshData(r0, c)' = D2 /\ FreshReply(r0)' = Q
    BY <1>8, OtherOther DEF FreshData, FreshReply, Fresh, D2, Q, r0
  <2>8. Agree(sub[r0][c].state, sub[r0][c].seq, outRel[r0][c], inRel[Other(r0)][c],
              inSeq[Other(r0)], outSeq[r0], FreshData(r0, c), FreshReply(r0), c)'
    BY <1>3, <1>8, <2>6, <2>7, OtherOther DEF Agree, r0
  <2> QED
    BY <2>8 DEF SubChannelInv, Agree, Acknowledged, r0
<1>14. \A r \in Peer, c \in SubChannel : SubChannelInv(r, c)'
  <2>1. \A r \in Peer : r = p \/ r = Other(p)
    BY DEF Other, Peer
  <2> QED BY <1>12, <1>13, <2>1
<1> QED
  BY <1>10, <1>11, <1>14 DEF IInv, BitsAgree

-----------------------------------------------------------------------------
(* SendDatagram *)

\* The subchannel the searches pick has the state they looked for.
LEMMA FirstInState ==
  ASSUME NEW subs, NEW state, InState(subs, state) # {}
  PROVE  /\ First(InState(subs, state)) \in SubChannel
         /\ subs[First(InState(subs, state))].state = state
<1>1. InState(subs, state) \in SUBSET Nat
  BY SizeAssumption DEF InState, SubChannel
<1>2. First(InState(subs, state)) \in InState(subs, state)
  BY <1>1, FirstIsLeast
<1> QED
  BY <1>2 DEF InState

\* What UpdateSubChannels does to one subchannel.
LEMMA UpdatedValues ==
  ASSUME NEW p \in Peer, NEW lists, NEW take,
         WellFormed(sub[p]), outRel[p] \in [SubChannel -> Bit]
  PROVE  /\ WellFormed(UpdatedSub(p, lists, take))
         /\ UpdatedOutRel(p, take) \in [SubChannel -> Bit]
         /\ \A c \in SubChannel :
              \/ /\ sub[p][c].state = "FREE"
                 /\ UpdatedSub(p, lists, take)[c].state = "TOSEND"
                 /\ UpdatedSub(p, lists, take)[c].seq = 0
                 /\ UpdatedOutRel(p, take)[c] = 1 - outRel[p][c]
              \/ /\ UpdatedSub(p, lists, take)[c] = sub[p][c]
                 /\ UpdatedOutRel(p, take)[c] = outRel[p][c]
<1>1. CASE ~Allocates(p, take)
  BY <1>1 DEF UpdatedSub, UpdatedOutRel
<1>2. CASE Allocates(p, take)
  <2> DEFINE c0 == First(InState(sub[p], "FREE"))
             start0 == [s \in Stream |-> IF take[s] > 0 THEN SentFragments(lists[s][1]) ELSE -1]
             new == [state |-> "TOSEND", seq |-> 0, num |-> take, start |-> start0]
  <2>1. c0 \in SubChannel /\ sub[p][c0].state = "FREE"
    BY <1>2, FirstInState DEF Allocates
  <2>2. UpdatedSub(p, lists, take) = [sub[p] EXCEPT ![c0] = new]
    BY <1>2 DEF UpdatedSub
  <2>3. UpdatedOutRel(p, take) = Flipped(outRel[p], c0)
    BY <1>2 DEF UpdatedOutRel
  <2> HIDE DEF start0, c0
  <2>4. /\ DOMAIN new = {"state", "seq", "start", "num"}
        /\ new.state = "TOSEND" /\ new.seq = 0
    OBVIOUS
  <2> HIDE DEF new
  <2>5. WellFormed(UpdatedSub(p, lists, take))
    BY <2>1, <2>2, <2>4 DEF WellFormed, SubState
  <2>6. UpdatedOutRel(p, take) \in [SubChannel -> Bit]
    BY <2>1, <2>3 DEF Flipped, Bit
  <2>7. ASSUME NEW c \in SubChannel
        PROVE  \/ /\ sub[p][c].state = "FREE"
                  /\ UpdatedSub(p, lists, take)[c].state = "TOSEND"
                  /\ UpdatedSub(p, lists, take)[c].seq = 0
                  /\ UpdatedOutRel(p, take)[c] = 1 - outRel[p][c]
               \/ /\ UpdatedSub(p, lists, take)[c] = sub[p][c]
                  /\ UpdatedOutRel(p, take)[c] = outRel[p][c]
    <3>1. CASE c = c0
      BY <2>1, <2>2, <2>3, <2>4, <3>1 DEF Flipped, WellFormed
    <3>2. CASE c # c0
      BY <2>2, <2>3, <3>2 DEF Flipped, WellFormed
    <3> QED BY <3>1, <3>2
  <2> QED BY <2>5, <2>6, <2>7
<1> QED
  BY <1>1, <1>2

\* What SendSubChannelData does to one subchannel.
LEMMA TransmittedValues ==
  ASSUME NEW p \in Peer, NEW subs, WellFormed(subs), NEW lists, outSeq[p] \in Nat
  PROVE  /\ WellFormed(TransmittedSub(p, subs))
         /\ Packet(p, subs, lists).sub \in SubChannel \cup {NoSub}
         /\ \A c \in SubChannel :
              \/ /\ Packet(p, subs, lists).sub = c
                 /\ subs[c].state = "TOSEND"
                 /\ TransmittedSub(p, subs)[c].state = "WAITING"
                 /\ TransmittedSub(p, subs)[c].seq = outSeq[p]
              \/ /\ Packet(p, subs, lists).sub # c
                 /\ TransmittedSub(p, subs)[c] = subs[c]
<1>1. Packet(p, subs, lists).sub = IF InState(subs, "TOSEND") = {} THEN NoSub
                                   ELSE First(InState(subs, "TOSEND"))
  BY DEF Packet
<1>2. NoSub \notin SubChannel
  BY SizeAssumption DEF NoSub, SubChannel
<1>3. CASE InState(subs, "TOSEND") = {}
  BY <1>1, <1>2, <1>3 DEF TransmittedSub
<1>4. CASE InState(subs, "TOSEND") # {}
  <2> DEFINE d0 == First(InState(subs, "TOSEND"))
  <2>1. d0 \in SubChannel /\ subs[d0].state = "TOSEND"
    BY <1>4, FirstInState
  <2>2. TransmittedSub(p, subs) = [subs EXCEPT ![d0].state = "WAITING", ![d0].seq = outSeq[p]]
    BY <1>4 DEF TransmittedSub
  <2>3. Packet(p, subs, lists).sub = d0
    BY <1>1, <1>4
  <2> HIDE DEF d0
  <2>4. /\ DOMAIN TransmittedSub(p, subs) = SubChannel
        /\ \A c \in SubChannel : c # d0 => TransmittedSub(p, subs)[c] = subs[c]
    BY <2>1, <2>2 DEF WellFormed
  <2>5. /\ DOMAIN TransmittedSub(p, subs)[d0] = {"state", "seq", "start", "num"}
        /\ TransmittedSub(p, subs)[d0].state = "WAITING"
        /\ TransmittedSub(p, subs)[d0].seq = outSeq[p]
    BY <2>1, <2>2 DEF WellFormed
  <2>6. WellFormed(TransmittedSub(p, subs))
    BY <2>1, <2>4, <2>5 DEF WellFormed, SubState
  <2> QED
    BY <2>1, <2>3, <2>4, <2>5, <2>6
<1> QED
  BY <1>3, <1>4

\* The header variables after SendDatagram, whatever is compressed or sent.
LEMMA SendDatagramEffect ==
  ASSUME NEW p \in Peer, SendDatagram(p)
  PROVE  \E lists, take, updated :
           /\ sub' = [sub EXCEPT ![p] = TransmittedSub(p, UpdatedSub(p, lists, take))]
           /\ outRel' = [outRel EXCEPT ![p] = UpdatedOutRel(p, take)]
           /\ net' = [net EXCEPT ![Other(p)] =
                        Travelling(net[Other(p)]
                                     \cup {Packet(p, UpdatedSub(p, lists, take), updated)},
                                   outSeq[p])]
           /\ outSeq' = [outSeq EXCEPT ![p] = outSeq[p] + 1]
           /\ UNCHANGED <<inSeq, outAck, inRel>>
<1> DEFINE flushed == [waitingList[p] EXCEPT ![NORMAL] = CreateFragments(@, streamReliable[p])]
<1>1. PICK lists \in CompressedLists(flushed), background \in BackgroundModes :
        LET take == TakeFragments(lists, background)
            subs == UpdatedSub(p, lists, take)
            updated == UpdatedWaiting(p, lists, take)
        IN  /\ sub' = [sub EXCEPT ![p] = TransmittedSub(p, subs)]
            /\ outRel' = [outRel EXCEPT ![p] = UpdatedOutRel(p, take)]
            /\ net' = [net EXCEPT ![Other(p)] =
                         Travelling(net[Other(p)] \cup {Packet(p, subs, updated)}, outSeq[p])]
  BY DEF SendDatagram
<1>2. outSeq' = [outSeq EXCEPT ![p] = outSeq[p] + 1] /\ UNCHANGED <<inSeq, outAck, inRel>>
  BY DEF SendDatagram
<1> QED
  BY <1>1, <1>2

\* SendDatagram preserves the invariant.
LEMMA SendDatagramIInv ==
  ASSUME IInv, NEW p \in Peer, SendDatagram(p)
  PROVE  IInv'
<1>1. PICK lists, take, updated :
        /\ sub' = [sub EXCEPT ![p] = TransmittedSub(p, UpdatedSub(p, lists, take))]
        /\ outRel' = [outRel EXCEPT ![p] = UpdatedOutRel(p, take)]
        /\ net' = [net EXCEPT ![Other(p)] =
                     Travelling(net[Other(p)]
                                  \cup {Packet(p, UpdatedSub(p, lists, take), updated)},
                                outSeq[p])]
        /\ outSeq' = [outSeq EXCEPT ![p] = outSeq[p] + 1]
        /\ UNCHANGED <<inSeq, outAck, inRel>>
  BY SendDatagramEffect
<1> DEFINE r0 == Other(p)
           subs == UpdatedSub(p, lists, take)
           pkt == Packet(p, subs, updated)
<1>2. pkt.seq = outSeq[p] /\ pkt.ack = inSeq[p] /\ pkt.rel = inRel[p]
  BY DEF Packet
<1>3. /\ WellFormed(sub[p]) /\ outRel[p] \in [SubChannel -> Bit]
      /\ outSeq[p] \in Nat /\ inSeq[p] \in Nat /\ inRel[p] \in [SubChannel -> Bit]
  BY DEF IInv, HeaderTypeOK
<1>4. /\ r0 \in Peer /\ r0 # p /\ Other(r0) = p /\ r0 = Other(p)
      /\ \A r \in Peer : r = p \/ r = r0
  BY OtherOther DEF Other, Peer
<1>5. WellFormed(subs) /\ UpdatedOutRel(p, take) \in [SubChannel -> Bit]
  BY <1>3, UpdatedValues
<1>6. WellFormed(TransmittedSub(p, subs)) /\ pkt.sub \in SubChannel \cup {NoSub}
  BY <1>3, <1>5, TransmittedValues
<1>7. /\ sub'[p] = TransmittedSub(p, subs) /\ sub'[r0] = sub[r0]
      /\ outRel'[p] = UpdatedOutRel(p, take) /\ outRel'[r0] = outRel[r0]
      /\ outSeq'[p] = outSeq[p] + 1 /\ outSeq'[r0] = outSeq[r0]
      /\ net'[p] = net[p] /\ net'[r0] \subseteq net[r0] \cup {pkt}
      /\ DOMAIN sub' = Peer /\ DOMAIN net' = Peer
  BY <1>1, <1>4 DEF IInv, HeaderTypeOK, Travelling
<1>8. UNCHANGED <<inSeq, outAck, inRel>>
  BY <1>1
<1>9. /\ outSeq' \in [Peer -> Nat]
      /\ outRel' \in [Peer -> [SubChannel -> Bit]]
  BY <1>1, <1>3, <1>5 DEF IInv, HeaderTypeOK
<1> HIDE DEF pkt, subs, r0
<1>10. HeaderTypeOK'
  <2>1. \A r \in Peer : WellFormed(sub'[r])
    BY <1>4, <1>6, <1>7 DEF IInv, HeaderTypeOK
  <2>2. \A r \in Peer : WellFormed(sub[r])'
    BY <2>1 DEF WellFormed
  <2>3. \A r \in Peer : \A q \in net'[r] :
          /\ q.seq \in Nat /\ q.ack \in Nat
          /\ q.rel \in [SubChannel -> Bit]
          /\ q.sub \in SubChannel \cup {NoSub}
    BY <1>2, <1>3, <1>4, <1>6, <1>7 DEF IInv, HeaderTypeOK
  <2> QED
    BY <1>7, <1>8, <1>9, <2>2, <2>3 DEF IInv, HeaderTypeOK
<1>11. SequenceInv'
  <2>1. \A r \in Peer : /\ inSeq[r] < outSeq[Other(r)]
                        /\ \A q \in net[r] : q.seq < outSeq[Other(r)] /\ q.ack <= inSeq[Other(r)]
                        /\ \A q, d \in net[r] : q.seq < d.seq => q.ack <= d.ack
                        /\ \A q, d \in net[r] : q.seq = d.seq => q = d
    BY DEF IInv, BitsAgree, SequenceInv
  <2>2. /\ inSeq[p] < outSeq'[r0]
        /\ \A q \in net'[p] : q.seq < outSeq'[r0] /\ q.ack <= inSeq[r0]
        /\ \A q, d \in net'[p] : q.seq < d.seq => q.ack <= d.ack
        /\ \A q, d \in net'[p] : q.seq = d.seq => q = d
    BY <1>4, <1>7, <2>1
  <2>3. \A q \in net[r0] : q.seq \in Nat /\ q.seq < outSeq[p] /\ q.ack <= inSeq[p]
    BY <1>4, <2>1 DEF IInv, HeaderTypeOK
  <2>4. /\ inSeq[r0] < outSeq'[p]
        /\ \A q \in net'[r0] : q.seq < outSeq'[p] /\ q.ack <= inSeq[p]
    <3>1. inSeq[r0] \in Nat /\ inSeq[r0] < outSeq[p]
      BY <1>4, <2>1 DEF IInv, HeaderTypeOK
    <3> QED BY <1>2, <1>3, <1>7, <2>3, <3>1
  <2>5. /\ \A q, d \in net'[r0] : q.seq < d.seq => q.ack <= d.ack
        /\ \A q, d \in net'[r0] : q.seq = d.seq => q = d
    <3>1. \A q, d \in net[r0] \cup {pkt} : q.seq < d.seq => q.ack <= d.ack
      BY <1>2, <1>3, <1>4, <2>1, <2>3
    <3>2. \A q, d \in net[r0] \cup {pkt} : q.seq = d.seq => q = d
      BY <1>2, <1>3, <1>4, <2>1, <2>3
    <3> QED BY <1>7, <3>1, <3>2
  <2>6. \A r \in Peer : /\ inSeq'[r] < outSeq'[Other(r)]
                        /\ \A q \in net'[r] : q.seq < outSeq'[Other(r)] /\ q.ack <= inSeq'[Other(r)]
                        /\ \A q, d \in net'[r] : q.seq < d.seq => q.ack <= d.ack
                        /\ \A q, d \in net'[r] : q.seq = d.seq => q = d
    BY <1>4, <1>8, <2>2, <2>4, <2>5
  <2> QED
    BY <2>6 DEF SequenceInv
<1>12. ASSUME NEW c \in SubChannel
       PROVE  SubChannelInv(p, c)'
  <2> DEFINE D == FreshData(p, c)
             D2 == {d \in net'[r0] : d.seq > inSeq[r0] /\ d.sub = c}
             Q == FreshReply(p)
             i == inRel[r0][c]
             rin == inSeq[r0]
  <2>1. /\ Agree(sub[p][c].state, sub[p][c].seq, outRel[p][c], i, rin, outSeq[p], D, Q, c)
        /\ \A q \in Q : q.rel[c] \in Bit
        /\ outRel[p][c] \in Bit /\ i \in Bit /\ rin \in Nat
    BY <1>4, AgreeIsSubChannelInv DEF IInv, BitsAgree, HeaderTypeOK, FreshReply
  <2>2. D2 \in SUBSET (D \cup {pkt}) /\ (pkt.sub # c => D2 \in SUBSET D)
    BY <1>4, <1>7 DEF FreshData, Fresh
  <2> HIDE DEF D, D2, Q, i, rin
  <2>3. Agree(subs[c].state, subs[c].seq, UpdatedOutRel(p, take)[c], i, rin, outSeq[p], D, Q, c)
    <3>1. \/ /\ sub[p][c].state = "FREE"
             /\ subs[c].state = "TOSEND" /\ subs[c].seq = 0
             /\ UpdatedOutRel(p, take)[c] = 1 - outRel[p][c]
          \/ /\ subs[c] = sub[p][c]
             /\ UpdatedOutRel(p, take)[c] = outRel[p][c]
      BY <1>3, UpdatedValues DEF subs
    <3>2. ASSUME sub[p][c].state = "FREE"
          PROVE  Agree("TOSEND", 0, 1 - outRel[p][c], i, rin, outSeq[p], D, Q, c)
      BY <2>1, <3>2, AgreeAllocated
    <3> QED BY <2>1, <3>1, <3>2
  <2>4. Agree(sub'[p][c].state, sub'[p][c].seq, UpdatedOutRel(p, take)[c], i, rin,
              outSeq[p] + 1, D2, Q, c)
    <3>1. \/ /\ pkt.sub = c /\ subs[c].state = "TOSEND"
             /\ sub'[p][c].state = "WAITING" /\ sub'[p][c].seq = outSeq[p]
          \/ pkt.sub # c /\ sub'[p][c] = subs[c]
      <4>1. \/ /\ Packet(p, subs, updated).sub = c /\ subs[c].state = "TOSEND"
               /\ TransmittedSub(p, subs)[c].state = "WAITING"
               /\ TransmittedSub(p, subs)[c].seq = outSeq[p]
            \/ /\ Packet(p, subs, updated).sub # c
               /\ TransmittedSub(p, subs)[c] = subs[c]
        BY <1>3, <1>5, TransmittedValues
      <4>2. sub'[p] = TransmittedSub(p, subs)
        BY <1>7
      <4>3. QED
        BY ONLY <4>1, <4>2 DEF pkt
    <3>2. ASSUME subs[c].state = "TOSEND"
          PROVE  Agree("WAITING", outSeq[p], UpdatedOutRel(p, take)[c], i, rin,
                       outSeq[p] + 1, D2, Q, c)
      BY <1>2, <1>3, <2>1, <2>2, <2>3, <3>2, AgreeTransmitted
    <3>3. ASSUME pkt.sub # c
          PROVE  Agree(subs[c].state, subs[c].seq, UpdatedOutRel(p, take)[c], i, rin,
                       outSeq[p] + 1, D2, Q, c)
      <4>1. outSeq[p] + 1 \in Nat /\ outSeq[p] + 1 >= outSeq[p] /\ rin >= rin /\ Q \in SUBSET Q
        BY <1>3, <2>1
      <4> QED BY <1>3, <2>1, <2>2, <2>3, <3>3, <4>1, AgreeShrinks
    <3> QED BY <3>1, <3>2, <3>3
  <2>5. FreshData(p, c)' = D2 /\ FreshReply(p)' = Q
    BY <1>4, <1>7, <1>8 DEF FreshData, FreshReply, Fresh, D2, Q
  <2>6. Agree(sub[p][c].state, sub[p][c].seq, outRel[p][c], inRel[Other(p)][c],
              inSeq[Other(p)], outSeq[p], FreshData(p, c), FreshReply(p), c)'
    BY <1>4, <1>7, <1>8, <2>4, <2>5 DEF Agree, i, rin
  <2> QED
    BY <2>6 DEF SubChannelInv, Agree, Acknowledged
<1>13. ASSUME NEW c \in SubChannel
       PROVE  SubChannelInv(r0, c)'
  <2> DEFINE D == FreshData(r0, c)
             Q == FreshReply(r0)
             Q2 == {q \in net'[r0] : q.seq > inSeq[r0]}
  <2>1. /\ Agree(sub[r0][c].state, sub[r0][c].seq, outRel[r0][c], inRel[p][c], inSeq[p],
                 outSeq[r0], D, Q, c)
        /\ sub[r0][c].state \in SubState
    BY <1>4, AgreeIsSubChannelInv DEF IInv, BitsAgree, HeaderTypeOK, WellFormed
  <2>2. Q2 \in SUBSET (Q \cup {pkt})
    BY <1>7 DEF FreshReply, Fresh
  <2> HIDE DEF D, Q, Q2
  <2>3. pkt.rel[c] = inRel[p][c]
    BY <1>2
  <2>4. Agree(sub[r0][c].state, sub[r0][c].seq, outRel[r0][c], inRel[p][c], inSeq[p],
              outSeq[r0], D, Q2, c)
    BY <1>2, <1>3, <2>1, <2>2, <2>3, AgreeReplied
  <2>5. FreshData(r0, c)' = D /\ FreshReply(r0)' = Q2
    BY <1>4, <1>7, <1>8 DEF FreshData, FreshReply, Fresh, D, Q2
  <2>6. Agree(sub[r0][c].state, sub[r0][c].seq, outRel[r0][c], inRel[Other(r0)][c],
              inSeq[Other(r0)], outSeq[r0], FreshData(r0, c), FreshReply(r0), c)'
    BY <1>4, <1>7, <1>8, <2>4, <2>5 DEF Agree
  <2> QED
    BY <2>6 DEF SubChannelInv, Agree, Acknowledged, r0
<1>14. \A r \in Peer, c \in SubChannel : SubChannelInv(r, c)'
  BY <1>4, <1>12, <1>13
<1> QED
  BY <1>10, <1>11, <1>14 DEF IInv, BitsAgree

-----------------------------------------------------------------------------
(* The theorems *)

\* Every step of the channel preserves the invariant.
LEMMA NextIInv == IInv /\ [Next]_vars => IInv'
<1> SUFFICES ASSUME IInv, [Next]_vars PROVE IInv'
  OBVIOUS
<1>1. CASE UNCHANGED vars
  BY <1>1, HeaderUntouched DEF vars
<1>2. ASSUME NEW p \in Peer, SendNetMsg(p) PROVE IInv'
  BY <1>2, HeaderUntouched DEF SendNetMsg
<1>3. ASSUME NEW p \in Peer, SendFile(p) PROVE IInv'
  BY <1>3, HeaderUntouched DEF SendFile
<1>4. ASSUME NEW p \in Peer, SetChoked(p) PROVE IInv'
  BY <1>4, SetChokedIInv
<1>5. ASSUME NEW p \in Peer, SendDatagram(p) PROVE IInv'
  BY <1>5, SendDatagramIInv
<1>6. ASSUME NEW p \in Peer, Clear(p) PROVE IInv'
  BY <1>6, ClearIInv
<1>7. ASSUME NEW p \in Peer, NEW q \in net[p], ProcessPacket(p, q) PROVE IInv'
  BY <1>7, ProcessPacketIInv
<1> QED
  BY <1>1, <1>2, <1>3, <1>4, <1>5, <1>6, <1>7 DEF Next

\* The variables ProcessPacketHeader works on keep their types: bits stay
\* bits, a subchannel record stays one, whatever is lost, repeated or cleared.
THEOREM HeaderTypeCorrect == Spec => []HeaderTypeOK
<1>1. IInv => HeaderTypeOK
  BY DEF IInv
<1> QED
  BY InitIInv, NextIInv, <1>1, PTL DEF Spec

\* The alternating bits of the two ends agree in the way SubChannelInv says,
\* for any number of subchannels and fragments, any messages, any network
\* delay and any number of calls of Clear.
THEOREM BitsAlwaysAgree == Spec => []BitsAgree
<1>1. IInv => BitsAgree
  BY DEF IInv
<1> QED
  BY InitIInv, NextIInv, <1>1, PTL DEF Spec

\* ProcessPacketHeader never returns -1 for "reliable state invalid" and never
\* meets the free subchannel with a differing bit it asserts against.
THEOREM HeaderCorrect == Spec => []HeaderAlwaysValid
<1>1. IInv => HeaderAlwaysValid
  <2> SUFFICES ASSUME IInv, NEW p \in Peer, NEW q \in net[p], Fresh(p, q)
               PROVE  /\ ValidHeader(p, q)
                      /\ \A c \in SubChannel : Missed(p, q, c) => sub[p][c].state # "FREE"
    BY DEF HeaderAlwaysValid
  <2>1. ValidHeader(p, q)
    BY FreshIsValid
  <2>2. ASSUME NEW c \in SubChannel, Missed(p, q, c), sub[p][c].state = "FREE"
        PROVE  FALSE
    BY <2>2 DEF Missed, IInv, BitsAgree, SubChannelInv, FreshReply
  <2> QED BY <2>1, <2>2
<1> QED
  BY InitIInv, NextIInv, <1>1, PTL DEF Spec

-----------------------------------------------------------------------------
(***************************************************************************)
(* The fragments of NetChan, on top of the invariant above: what the head  *)
(* of a waiting list has acknowledged, what it has pending and what the    *)
(* subchannels carry of it add up (Carry), and a receive buffer has the    *)
(* size its item needs (Allocated). What is under way is a sum over        *)
(* subchannels (Flight); how each step changes it is first said of values, *)
(* then each action keeps the invariant (DInv).                            *)
(***************************************************************************)

Item == [msgs : Seq(Msg) \ {<<>>}, bytes : Nat \ {0}, file : BOOLEAN,
         compressed : BOOLEAN, acked : Nat, pending : Nat]

\* A waiting list: only its head has been started.
Waiting(list) ==
  /\ list \in Seq(Item)
  /\ \A i \in 2 .. Len(list) : list[i].acked = 0 /\ list[i].pending = 0

\* The fragment fields of a peer's subchannels.
Fragmented(subs) ==
  \A c \in SubChannel : /\ subs[c].num \in [Stream -> 0 .. MaxFragments]
                        /\ subs[c].start \in [Stream -> Int]

\* InFlight and Numbers of a peer whose subchannels are subs.
Flight(subs, s) ==
  {c \in SubChannel : subs[c].state \in {"TOSEND", "WAITING"} /\ subs[c].num[s] > 0}
NumsOf(subs, s) == [c \in SubChannel |-> subs[c].num[s]]

\* The subchannels carry what a head has pending, each fragment once.
CarryHead(subs, s, head) ==
  /\ head.pending = SumFunctionOnSet(NumsOf(subs, s), Flight(subs, s))
  /\ SentFragments(head) <= NumFragments(head.bytes)
  /\ \A c \in Flight(subs, s) :
       0 <= subs[c].start[s] /\ subs[c].start[s] + subs[c].num[s] <= SentFragments(head)
  /\ \A c, d \in Flight(subs, s) :
       c # d => \/ subs[c].start[s] + subs[c].num[s] <= subs[d].start[s]
                \/ subs[d].start[s] + subs[d].num[s] <= subs[c].start[s]

Carry(subs, s, list) ==
  IF list = <<>> THEN Flight(subs, s) = {} ELSE CarryHead(subs, s, list[1])

-----------------------------------------------------------------------------
(* Numbers of fragments *)

\* Every block of data has a fragment.
LEMMA FragmentsPositive ==
  ASSUME NEW b \in Nat \ {0}
  PROVE  NumFragments(b) \in Nat \ {0}
<1> DEFINE a == b + FragmentSize - 1
           k == a \div FragmentSize
<1>1. FragmentSize \in Nat \ {0} /\ a \in Nat /\ a >= FragmentSize
  BY SizeAssumption
<1> HIDE DEF a
<1>2. k \in Int /\ FragmentSize * k <= a /\ a < FragmentSize * (k + 1)
  BY <1>1
<1> HIDE DEF k
<1>3. k > 0
  <2> SUFFICES ASSUME k <= 0 PROVE FALSE
    BY <1>2
  <2>1. FragmentSize * (k + 1) <= FragmentSize
    BY <1>1, <1>2
  <2> QED BY <1>1, <1>2, <2>1
<1> QED BY <1>2, <1>3 DEF NumFragments, a, k

\* The subchannels are finitely many, and their numbers numbers.
LEMMA FlightFinite ==
  ASSUME NEW subs, NEW s \in Stream, Fragmented(subs)
  PROVE  /\ IsFiniteSet(SubChannel) /\ IsFiniteSet(Flight(subs, s))
         /\ \A c \in SubChannel : NumsOf(subs, s)[c] \in Nat /\ NumsOf(subs, s)[c] = subs[c].num[s]
         /\ Flight(subs, s) \in SUBSET SubChannel
<1>1. IsFiniteSet(SubChannel)
  BY SizeAssumption, FS_Interval DEF SubChannel
<1>2. Flight(subs, s) \in SUBSET SubChannel
  BY DEF Flight
<1>3. IsFiniteSet(Flight(subs, s))
  BY <1>1, <1>2, FS_Subset
<1>4. \A c \in SubChannel : NumsOf(subs, s)[c] = subs[c].num[s] /\ subs[c].num[s] \in Nat
  BY SizeAssumption DEF NumsOf, Fragmented
<1> QED BY <1>1, <1>2, <1>3, <1>4

\* The fields of an item are numbers.
LEMMA ItemFields ==
  ASSUME NEW head \in Item
  PROVE  /\ head.acked \in Nat /\ head.pending \in Nat /\ head.bytes \in Nat \ {0}
         /\ SentFragments(head) = head.acked + head.pending
         /\ NumFragments(head.bytes) \in Nat \ {0}
<1>1. head.acked \in Nat /\ head.pending \in Nat /\ head.bytes \in Nat \ {0}
  BY DEF Item
<1> QED BY <1>1, FragmentsPositive DEF SentFragments

\* While a head is not started nothing is under way.
LEMMA NothingPending ==
  ASSUME NEW subs, NEW s \in Stream, Fragmented(subs), NEW head \in Item,
         CarryHead(subs, s, head), head.pending = 0
  PROVE  Flight(subs, s) = {}
<1> SUFFICES ASSUME NEW c \in Flight(subs, s) PROVE FALSE
  OBVIOUS
<1> DEFINE f == NumsOf(subs, s)
           S == Flight(subs, s)
<1>1. IsFiniteSet(S) /\ \A d \in S : f[d] \in Nat
  BY FlightFinite
<1>2. f[c] > 0
  BY FlightFinite DEF Flight
<1>3. SumFunctionOnSet(f, S) = 0
  BY DEF CarryHead
<1> HIDE DEF f, S
<1>4. f[c] <= SumFunctionOnSet(f, S) /\ f[c] \in Nat
  BY <1>1, SumNat DEF S
<1> QED BY <1>2, <1>3, <1>4

\* The sum over nothing.
LEMMA SumNothing == \A f : SumFunctionOnSet(f, {}) = 0
BY SumPick, FS_EmptySet

\* A new head is carried by nothing.
LEMMA NewHeadCarried ==
  ASSUME NEW subs, NEW s \in Stream, Flight(subs, s) = {}, NEW head \in Item,
         head.acked = 0, head.pending = 0
  PROVE  CarryHead(subs, s, head)
BY SumNothing, ItemFields DEF CarryHead

-----------------------------------------------------------------------------
(* Subchannels *)

\* Steps that leave the fragments and the flight of a peer as they are.
LEMMA SameFlight ==
  ASSUME NEW subs, NEW subs2, Fragmented(subs),
         \A c \in SubChannel :
           /\ subs2[c].num = subs[c].num /\ subs2[c].start = subs[c].start
           /\ subs2[c].state \in {"TOSEND", "WAITING"} <=> subs[c].state \in {"TOSEND", "WAITING"}
  PROVE  /\ Fragmented(subs2)
         /\ \A s \in Stream : Flight(subs2, s) = Flight(subs, s)
         /\ \A s \in Stream : \A list : Carry(subs, s, list) => Carry(subs2, s, list)
<1>1. Fragmented(subs2)
  BY DEF Fragmented
<1>2. \A s \in Stream : Flight(subs2, s) = Flight(subs, s) /\ NumsOf(subs2, s) = NumsOf(subs, s)
  BY DEF Flight, NumsOf
<1>3. ASSUME NEW s \in Stream, NEW list, Carry(subs, s, list)
      PROVE  Carry(subs2, s, list)
  <2>1. Flight(subs2, s) = Flight(subs, s) /\ NumsOf(subs2, s) = NumsOf(subs, s)
    BY <1>2
  <2>2. Flight(subs, s) \in SUBSET SubChannel
    BY DEF Flight
  <2>3. CASE list = <<>>
    BY <1>3, <2>1, <2>3 DEF Carry
  <2>4. CASE list # <<>>
    BY <1>3, <2>1, <2>2, <2>4 DEF Carry, CarryHead
  <2> QED BY <2>3, <2>4
<1> QED BY <1>1, <1>2, <1>3

\* A free subchannel carries nothing.
LEMMA FreeFragments ==
  /\ FreeSub.num \in [Stream -> 0 .. MaxFragments] /\ FreeSub.start \in [Stream -> Int]
  /\ FreeSub.state = "FREE" /\ \A s \in Stream : FreeSub.num[s] = 0
BY SizeAssumption DEF FreeSub

\* After Clear nothing is under way.
LEMMA ClearedFlight ==
  ASSUME NEW subs, WellFormed(subs), Fragmented(subs)
  PROVE  /\ Fragmented(ClearedSub(subs))
         /\ \A s \in Stream : Flight(ClearedSub(subs), s) = {}
<1>1. ASSUME NEW c \in SubChannel
      PROVE  /\ ClearedSub(subs)[c].num \in [Stream -> 0 .. MaxFragments]
             /\ ClearedSub(subs)[c].start \in [Stream -> Int]
             /\ ClearedSub(subs)[c].state \notin {"TOSEND", "WAITING"}
  <2>1. CASE subs[c].state = "TOSEND"
    <3>1. ClearedSub(subs)[c] = FreeSub
      BY <2>1 DEF ClearedSub
    <3> QED BY <3>1, FreeFragments
  <2>2. CASE subs[c].state = "WAITING"
    <3>1. ClearedSub(subs)[c] = [subs[c] EXCEPT !.state = "DIRTY"]
      BY <2>2 DEF ClearedSub
    <3> QED BY <3>1 DEF WellFormed, Fragmented
  <2>3. CASE subs[c].state \notin {"TOSEND", "WAITING"}
    <3>1. ClearedSub(subs)[c] = subs[c]
      BY <2>3 DEF ClearedSub
    <3> QED BY <2>3, <3>1 DEF Fragmented
  <2> QED BY <2>1, <2>2, <2>3
<1> QED BY <1>1 DEF Fragmented, Flight

\* What SendSubChannelData leaves of the fragment fields: all.
LEMMA TransmittedFlight ==
  ASSUME NEW p \in Peer, NEW subs, WellFormed(subs), Fragmented(subs), outSeq[p] \in Nat
  PROVE  /\ Fragmented(TransmittedSub(p, subs))
         /\ \A s \in Stream : Flight(TransmittedSub(p, subs), s) = Flight(subs, s)
         /\ \A s \in Stream : \A list : Carry(subs, s, list) => Carry(TransmittedSub(p, subs), s, list)
<1> DEFINE subs2 == TransmittedSub(p, subs)
<1>1. \A c \in SubChannel :
           /\ subs2[c].num = subs[c].num /\ subs2[c].start = subs[c].start
           /\ subs2[c].state \in {"TOSEND", "WAITING"} <=> subs[c].state \in {"TOSEND", "WAITING"}
  <2>1. CASE InState(subs, "TOSEND") = {}
    BY <2>1 DEF TransmittedSub
  <2>2. CASE InState(subs, "TOSEND") # {}
    <3> DEFINE d0 == First(InState(subs, "TOSEND"))
    <3>1. d0 \in SubChannel /\ subs[d0].state = "TOSEND"
      BY <2>2, FirstInState
    <3>2. subs2 = [subs EXCEPT ![d0].state = "WAITING", ![d0].seq = outSeq[p]]
      BY <2>2 DEF TransmittedSub
    <3> HIDE DEF d0, subs2
    <3>3. subs2[d0] = [subs[d0] EXCEPT !.state = "WAITING", !.seq = outSeq[p]]
      BY <3>1, <3>2 DEF WellFormed
    <3>4. \A c \in SubChannel : c # d0 => subs2[c] = subs[c]
      BY <3>1, <3>2 DEF WellFormed
    <3>5. /\ subs2[d0].num = subs[d0].num /\ subs2[d0].start = subs[d0].start
          /\ subs2[d0].state = "WAITING"
      BY <3>1, <3>3 DEF WellFormed
    <3> QED BY <3>1, <3>4, <3>5
  <2> QED BY <2>1, <2>2
<1> HIDE DEF subs2
<1> QED BY <1>1, SameFlight DEF subs2

\* Acknowledged subchannels leave the flight, with what they carried.
LEMMA FlightLoses ==
  ASSUME NEW subs, NEW subs2, NEW s \in Stream, Fragmented(subs), Fragmented(subs2),
         NEW A \in SUBSET SubChannel, \A c \in A : c \in Flight(subs, s) \/ subs[c].num[s] = 0,
         Flight(subs2, s) = Flight(subs, s) \ A,
         \A c \in Flight(subs2, s) :
           subs2[c].num = subs[c].num /\ subs2[c].start = subs[c].start,
         NEW n, n = SumFunctionOnSet(NumsOf(subs, s), A),
         NEW head \in Item, NEW head2 \in Item, CarryHead(subs, s, head),
         head2.acked = head.acked + n, head2.pending = head.pending - n,
         head2.bytes = head.bytes
  PROVE  CarryHead(subs2, s, head2)
<1> DEFINE F == Flight(subs, s)
           f == NumsOf(subs, s)
           f2 == NumsOf(subs2, s)
<1>1. /\ IsFiniteSet(F) /\ IsFiniteSet(A) /\ IsFiniteSet(F \ A) /\ F \in SUBSET SubChannel
      /\ \A c \in SubChannel : f[c] \in Nat /\ f[c] = subs[c].num[s]
      /\ \A c \in SubChannel : f2[c] \in Nat /\ f2[c] = subs2[c].num[s]
  BY FlightFinite, FS_Subset
<1>2. SumFunctionOnSet(f2, F \ A) = SumFunctionOnSet(f, F \ A)
  <2>1. \A c \in F \ A : f2[c] = f[c]
    BY <1>1
  <2> HIDE DEF F, f, f2
  <2> QED BY <1>1, <2>1, SumAgree
<1>3. n = SumFunctionOnSet(f, A \cap F)
  <2> DEFINE Z == A \ F
  <2>1. Z = A \ (A \cap F) /\ A \cap F \in SUBSET A /\ IsFiniteSet(Z)
    BY <1>1, FS_Subset
  <2>2. \A c \in Z : f[c] = 0
    BY <1>1
  <2>3. SumFunctionOnSet(f, Z) \in Nat /\ ~(SumFunctionOnSet(f, Z) > 0)
    <3> HIDE DEF f, Z
    <3> QED BY <2>1, <2>2, SumNat, SumPositive
  <2> HIDE DEF Z
  <2>4. \A c \in A : f[c] \in Int
    BY <1>1
  <2> HIDE DEF F, f
  <2>5. SumFunctionOnSet(f, A) = SumFunctionOnSet(f, A \cap F) + SumFunctionOnSet(f, A \ (A \cap F))
    BY <1>1, <2>1, <2>4, SumParts
  <2>6. SumFunctionOnSet(f, A \cap F) \in Int
    BY <1>1, <2>4, SumInt, FS_Subset
  <2> QED BY <2>1, <2>3, <2>5, <2>6 DEF f
<1>4. SumFunctionOnSet(f, F) = SumFunctionOnSet(f, A \cap F) + SumFunctionOnSet(f, F \ A)
  <2>1. A \cap F \in SUBSET F /\ F \ (A \cap F) = F \ A /\ \A c \in F : f[c] \in Int
    BY <1>1
  <2> HIDE DEF F, f
  <2> QED BY <1>1, <2>1, SumParts
<1>5. /\ SumFunctionOnSet(f, A \cap F) \in Int /\ SumFunctionOnSet(f, F \ A) \in Int
  <2>1. \A c \in F : f[c] \in Int
    BY <1>1
  <2>2. IsFiniteSet(A \cap F)
    BY <1>1, FS_Subset
  <2> HIDE DEF F, f
  <2> QED BY <1>1, <2>1, <2>2, SumInt
<1>6. head2.pending = SumFunctionOnSet(f2, Flight(subs2, s))
  <2>1. head.pending = SumFunctionOnSet(f, F)
    BY DEF CarryHead
  <2>2. Flight(subs2, s) = F \ A
    OBVIOUS
  <2> HIDE DEF F, f, f2
  <2>3. n \in Int /\ head.pending = n + SumFunctionOnSet(f, F \ A)
    BY <1>3, <1>4, <1>5, <2>1
  <2>4. head2.pending = SumFunctionOnSet(f, F \ A)
    BY <1>5, <2>3
  <2> QED BY <1>2, <2>2, <2>4
<1>7. SentFragments(head2) = SentFragments(head)
  <2>1. n \in Int
    BY <1>3, <1>5
  <2> QED BY <2>1, ItemFields
<1>8. \A c \in Flight(subs2, s) : c \in F
  OBVIOUS
<1>9. SentFragments(head) <= NumFragments(head.bytes)
      /\ NumFragments(head2.bytes) = NumFragments(head.bytes)
  BY DEF CarryHead
<1>10. \A c \in Flight(subs2, s) :
       0 <= subs2[c].start[s] /\ subs2[c].start[s] + subs2[c].num[s] <= SentFragments(head2)
  BY <1>7, <1>8 DEF CarryHead
<1>11. \A c, d \in Flight(subs2, s) :
       c # d => \/ subs2[c].start[s] + subs2[c].num[s] <= subs2[d].start[s]
                \/ subs2[d].start[s] + subs2[d].num[s] <= subs2[c].start[s]
  <2> SUFFICES ASSUME NEW c \in Flight(subs2, s), NEW d \in Flight(subs2, s), c # d
               PROVE  \/ subs2[c].start[s] + subs2[c].num[s] <= subs2[d].start[s]
                      \/ subs2[d].start[s] + subs2[d].num[s] <= subs2[c].start[s]
    OBVIOUS
  <2>1. /\ subs2[c].num = subs[c].num /\ subs2[c].start = subs[c].start
        /\ subs2[d].num = subs[d].num /\ subs2[d].start = subs[d].start
    OBVIOUS
  <2> QED BY <1>8, <2>1 DEF CarryHead
<1> HIDE DEF F, f
<1> QED BY <1>6, <1>7, <1>9, <1>10, <1>11 DEF CarryHead

\* A subchannel joins the flight with the next fragments of a head.
LEMMA FlightGains ==
  ASSUME NEW subs, NEW subs2, NEW s \in Stream, Fragmented(subs), Fragmented(subs2),
         NEW c0 \in SubChannel, subs[c0].state = "FREE",
         subs2[c0].state = "TOSEND",
         \A c \in SubChannel : c # c0 => subs2[c] = subs[c],
         NEW head \in Item, NEW head2 \in Item, CarryHead(subs, s, head),
         NEW k, k = subs2[c0].num[s],
         k <= NumFragments(head.bytes) - SentFragments(head),
         k > 0 => subs2[c0].start[s] = SentFragments(head),
         head2.acked = head.acked, head2.pending = head.pending + k,
         head2.bytes = head.bytes
  PROVE  CarryHead(subs2, s, head2)
<1> DEFINE F == Flight(subs, s)
           f == NumsOf(subs, s)
           F2 == Flight(subs2, s)
           f2 == NumsOf(subs2, s)
<1>1. /\ IsFiniteSet(F) /\ F \in SUBSET SubChannel
      /\ IsFiniteSet(F2) /\ F2 \in SUBSET SubChannel
      /\ \A c \in SubChannel : f[c] \in Nat /\ f[c] = subs[c].num[s]
      /\ \A c \in SubChannel : f2[c] \in Nat /\ f2[c] = subs2[c].num[s]
  BY FlightFinite
<1>2. c0 \notin F /\ k \in Nat
  <2>1. c0 \notin F
    BY DEF Flight
  <2> QED BY <1>1, <2>1
<1>3. F2 = IF k > 0 THEN F \cup {c0} ELSE F
  <2>1. c0 \in F2 <=> k > 0
    BY DEF Flight
  <2>2. \A c \in SubChannel : c # c0 => (c \in F2 <=> c \in F)
    BY DEF Flight
  <2> HIDE DEF F, F2
  <2>3. F \subseteq SubChannel /\ F2 \subseteq SubChannel
    BY <1>1
  <2>4. CASE k > 0
    <3>1. F2 = F \cup {c0}
      BY <2>1, <2>2, <2>3, <2>4
    <3> QED BY <2>4, <3>1
  <2>5. CASE ~(k > 0)
    <3>2. c0 \notin F2
      BY <2>1, <2>5
    <3>3. \A c \in SubChannel : c \in F2 <=> c \in F
      BY <1>2, <2>2, <3>2
    <3>1. F2 = F
      BY ONLY <2>3, <3>3
    <3> QED BY <2>5, <3>1
  <2> QED BY <2>4, <2>5
<1>4. SumFunctionOnSet(f2, F) = SumFunctionOnSet(f, F)
  <2>1. \A c \in F : f2[c] = f[c]
    BY <1>1, <1>2
  <2> HIDE DEF F, f, f2
  <2> QED BY <1>1, <2>1, SumAgree
<1>5. head2.pending = SumFunctionOnSet(f2, F2)
  <2>1. head.pending = SumFunctionOnSet(f, F) /\ head.pending \in Nat
    BY ItemFields DEF CarryHead
  <2>2. f2[c0] = k
    BY <1>1
  <2> HIDE DEF F, f, F2, f2
  <2>3. CASE k > 0
    <3>1. F2 \ {c0} = F /\ c0 \in F2
      BY <1>2, <1>3, <2>3
    <3>2. \A c \in F2 : f2[c] \in Int
      BY <1>1
    <3>3. SumFunctionOnSet(f2, F2) = f2[c0] + SumFunctionOnSet(f2, F)
      <4>1. IsFiniteSet(F2)
        BY <1>1
      <4>2. c0 \in F2
        BY <3>1
      <4>3. SumFunctionOnSet(f2, F2) = f2[c0] + SumFunctionOnSet(f2, F2 \ {c0})
        BY ONLY <3>2, <4>1, <4>2, SumRemove
      <4> QED BY ONLY <3>1, <4>3
    <3> QED BY <1>2, <1>4, <2>1, <2>2, <3>3
  <2>4. CASE ~(k > 0)
    BY <1>2, <1>3, <1>4, <2>1, <2>4
  <2> QED BY <2>3, <2>4
<1>6. /\ SentFragments(head2) = SentFragments(head) + k
      /\ SentFragments(head) \in Nat
      /\ SentFragments(head2) <= NumFragments(head2.bytes)
      /\ NumFragments(head.bytes) \in Nat
  BY <1>2, ItemFields
<1>7. \A c \in F : subs2[c] = subs[c]
  BY <1>1, <1>2
<1>8. ASSUME NEW c \in F2
      PROVE  0 <= subs2[c].start[s] /\ subs2[c].start[s] + subs2[c].num[s] <= SentFragments(head2)
  <2>1. CASE c = c0
    <3>1. k > 0
      BY <1>2, <1>3, <2>1
    <3> QED BY <1>2, <1>6, <2>1, <3>1
  <2>2. CASE c # c0
    <3>1. c \in F
      BY <1>3, <2>2
    <3>2. /\ 0 <= subs[c].start[s] /\ subs[c].start[s] + subs[c].num[s] <= SentFragments(head)
          /\ subs[c].start[s] \in Int /\ subs[c].num[s] \in Int
      BY <1>1, <3>1 DEF CarryHead, Fragmented
    <3> QED BY <1>2, <1>6, <1>7, <3>1, <3>2
  <2> QED BY <2>1, <2>2
<1>9. \A c \in F : subs2[c].start[s] + subs2[c].num[s] <= SentFragments(head)
  BY <1>7 DEF CarryHead
<1>10. ASSUME NEW c \in F2, NEW d \in F2, c # d
       PROVE  \/ subs2[c].start[s] + subs2[c].num[s] <= subs2[d].start[s]
              \/ subs2[d].start[s] + subs2[d].num[s] <= subs2[c].start[s]
  <2>1. CASE c \in F /\ d \in F
    BY <1>7, <1>10, <2>1 DEF CarryHead
  <2>2. CASE c = c0
    <3>1. k > 0 /\ d \in F
      BY <1>2, <1>3, <1>10, <2>2
    <3> QED BY <1>9, <2>2, <3>1
  <2>3. CASE d = c0
    <3>1. k > 0 /\ c \in F
      BY <1>2, <1>3, <1>10, <2>3
    <3> QED BY <1>9, <2>3, <3>1
  <2> QED BY <1>3, <2>1, <2>2, <2>3
<1> QED BY <1>5, <1>6, <1>8, <1>10 DEF CarryHead

-----------------------------------------------------------------------------
(* Waiting lists *)

\* Another head in the same place.
LEMMA HeadReplaced ==
  ASSUME NEW list, Waiting(list), list # <<>>, NEW item \in Item
  PROVE  LET list2 == [list EXCEPT ![1] = item]
         IN  /\ Waiting(list2) /\ list2 # <<>> /\ list2[1] = item /\ Len(list2) = Len(list)
             /\ \A i \in 2 .. Len(list) : list2[i] = list[i]
<1> DEFINE list2 == [list EXCEPT ![1] = item]
<1>1. list \in Seq(Item) /\ Len(list) \in Nat \ {0}
  BY DEF Waiting
<1>2. list2 \in Seq(Item) /\ Len(list2) = Len(list)
  BY <1>1
<1>3. list2[1] = item /\ \A i \in 2 .. Len(list) : list2[i] = list[i]
  BY <1>1
<1> QED BY <1>1, <1>2, <1>3 DEF Waiting

\* An item at the end.
LEMMA ItemAppended ==
  ASSUME NEW list, Waiting(list), NEW item \in Item, item.acked = 0, item.pending = 0
  PROVE  /\ Waiting(Append(list, item)) /\ Append(list, item) # <<>>
         /\ list = <<>> => Append(list, item)[1] = item
         /\ list # <<>> => Append(list, item)[1] = list[1]
<1>1. list \in Seq(Item) /\ Len(list) \in Nat
  BY DEF Waiting
<1>2. Append(list, item) \in Seq(Item) /\ Len(Append(list, item)) = Len(list) + 1
  BY <1>1
<1>3. \A i \in 1 .. Len(list) + 1 :
        Append(list, item)[i] = IF i = Len(list) + 1 THEN item ELSE list[i]
  BY <1>1
<1>4. ASSUME NEW i \in 2 .. Len(list) + 1
      PROVE  Append(list, item)[i].acked = 0 /\ Append(list, item)[i].pending = 0
  <2>1. CASE i = Len(list) + 1
    BY <1>1, <1>3, <2>1
  <2>2. CASE i # Len(list) + 1
    <3>1. i \in 2 .. Len(list) /\ i \in 1 .. Len(list) + 1
      BY <1>1, <2>2
    <3>2. Append(list, item)[i] = list[i]
      BY <1>3, <2>2, <3>1
    <3> QED BY <3>1, <3>2 DEF Waiting
  <2> QED BY <2>1, <2>2
<1>5. list = <<>> => Len(list) = 0
  OBVIOUS
<1>6. list # <<>> => Len(list) > 0
  BY <1>1
<1>7. Append(list, item)[1] = IF Len(list) = 0 THEN item ELSE list[1]
  BY <1>1, <1>3
<1>8. Waiting(Append(list, item))
  BY <1>2, <1>4 DEF Waiting
<1>9. Append(list, item) # <<>>
  BY <1>1, <1>2
<1> HIDE DEF Waiting
<1> QED BY <1>1, <1>5, <1>6, <1>7, <1>8, <1>9

\* Another item in the last place, when that is not the head.
LEMMA LastReplaced ==
  ASSUME NEW list, Waiting(list), Len(list) > 1, NEW item \in Item,
         item.acked = 0, item.pending = 0,
         NEW list2, list2 = [list EXCEPT ![Len(list)] = item]
  PROVE  Waiting(list2) /\ list2 # <<>> /\ list2[1] = list[1] /\ Len(list2) = Len(list)
<1>1. list \in Seq(Item) /\ Len(list) \in Nat
  BY DEF Waiting
<1>2. list2 \in Seq(Item) /\ Len(list2) = Len(list)
  BY <1>1
<1>3. \A i \in 1 .. Len(list) : list2[i] = IF i = Len(list) THEN item ELSE list[i]
  BY <1>1
<1>4. ASSUME NEW i \in 2 .. Len(list)
      PROVE  list2[i].acked = 0 /\ list2[i].pending = 0
  <2>1. list2[i] = IF i = Len(list) THEN item ELSE list[i]
    BY <1>3
  <2> QED BY <2>1 DEF Waiting
<1>5. list2[1] = list[1]
  BY <1>1, <1>3
<1>6. Waiting(list2)
  BY <1>2, <1>4 DEF Waiting
<1>7. list2 # <<>>
  BY <1>1, <1>2
<1> QED BY <1>2, <1>5, <1>6, <1>7

\* What is left without the head.
LEMMA HeadRemoved ==
  ASSUME NEW list, Waiting(list), list # <<>>
  PROVE  /\ Waiting(Tail(list)) /\ Len(Tail(list)) = Len(list) - 1
         /\ \A i \in 1 .. Len(list) - 1 : Tail(list)[i] = list[i + 1]
         /\ Tail(list) # <<>> => Tail(list)[1].acked = 0 /\ Tail(list)[1].pending = 0
<1>1. list \in Seq(Item) /\ Len(list) \in Nat \ {0}
  BY DEF Waiting
<1>2. /\ Tail(list) \in Seq(Item) /\ Len(Tail(list)) = Len(list) - 1
      /\ \A i \in 1 .. Len(list) - 1 : Tail(list)[i] = list[i + 1]
  BY <1>1
<1>3. \A i \in 1 .. Len(list) - 1 : Tail(list)[i].acked = 0 /\ Tail(list)[i].pending = 0
  <2> SUFFICES ASSUME NEW i \in 1 .. Len(list) - 1
               PROVE  Tail(list)[i].acked = 0 /\ Tail(list)[i].pending = 0
    OBVIOUS
  <2>1. i + 1 \in 2 .. Len(list) /\ Tail(list)[i] = list[i + 1]
    BY <1>1, <1>2
  <2> QED BY <2>1 DEF Waiting
<1>4. Tail(list) # <<>> => 1 \in 1 .. Len(list) - 1
  BY <1>1, <1>2
<1>5. \A i \in 2 .. Len(Tail(list)) : i \in 1 .. Len(list) - 1
  BY <1>1, <1>2
<1> QED BY <1>2, <1>3, <1>4, <1>5 DEF Waiting

\* Messages take up room.
LEMMA TotalBytesPositive ==
  ASSUME NEW msgs \in Seq(Msg)
  PROVE  TotalBytes(msgs) \in Nat /\ (msgs # <<>> => TotalBytes(msgs) > 0)
<1> DEFINE f == [i \in DOMAIN msgs |-> Bytes[msgs[i]]]
           S == DOMAIN msgs
<1>1. S = 1 .. Len(msgs) /\ Len(msgs) \in Nat
  OBVIOUS
<1>2. IsFiniteSet(S)
  BY <1>1, FS_Interval
<1>3. \A i \in S : f[i] \in Nat /\ f[i] > 0
  BY <1>1, MessageAssumption
<1>4. TotalBytes(msgs) = SumFunctionOnSet(f, S)
  BY DEF TotalBytes, SumFunction
<1>5. msgs # <<>> => 1 \in S
  BY <1>1
<1> HIDE DEF f, S
<1>6. SumFunctionOnSet(f, S) \in Nat /\ \A i \in S : f[i] <= SumFunctionOnSet(f, S)
  BY <1>2, <1>3, SumNat
<1> QED BY <1>3, <1>4, <1>5, <1>6

\* A new item is one.
LEMMA NewItemFields ==
  ASSUME NEW msgs \in Seq(Msg) \ {<<>>}, NEW bytes \in Nat \ {0}, NEW file \in BOOLEAN
  PROVE  /\ NewItem(msgs, bytes, file) \in Item
         /\ NewItem(msgs, bytes, file).acked = 0 /\ NewItem(msgs, bytes, file).pending = 0
         /\ NewItem(msgs, bytes, file).msgs = msgs
BY DEF NewItem, Item

\* CreateFragmentsFromBuffer touches no head that is there.
LEMMA FragmentsCreated ==
  ASSUME NEW list, Waiting(list), NEW msgs \in Seq(Msg)
  PROVE  LET list2 == CreateFragments(list, msgs)
         IN  /\ Waiting(list2)
             /\ list # <<>> => list2 # <<>> /\ list2[1] = list[1]
             /\ list = <<>> /\ list2 # <<>> => list2[1].acked = 0 /\ list2[1].pending = 0
<1> DEFINE bytes == TotalBytes(msgs)
           n == Len(list)
           merged == NewItem(list[n].msgs \o msgs, list[n].bytes + bytes, FALSE)
           new == NewItem(msgs, bytes, FALSE)
           list2 == CreateFragments(list, msgs)
<1>1. list2 = IF msgs = <<>> THEN list
              ELSE IF MayMerge(list, bytes) THEN [list EXCEPT ![n] = merged]
              ELSE Append(list, new)
  BY DEF CreateFragments
<1>2. bytes \in Nat /\ (msgs # <<>> => bytes \in Nat \ {0})
  BY TotalBytesPositive
<1>3. list \in Seq(Item) /\ n \in Nat
  BY DEF Waiting
<1> HIDE DEF list2, bytes
<1>4. CASE msgs = <<>>
  BY <1>1, <1>4 DEF list2
<1>5. CASE msgs # <<>> /\ MayMerge(list, bytes)
  <2>1. n > 1 /\ list[n] \in Item
    BY <1>3, <1>5 DEF MayMerge
  <2>2. list[n].msgs \o msgs \in Seq(Msg) \ {<<>>} /\ list[n].bytes + bytes \in Nat \ {0}
    <3>1. list[n].msgs \in Seq(Msg) /\ list[n].msgs # <<>> /\ list[n].bytes \in Nat \ {0}
      BY <2>1 DEF Item
    <3>2. Len(list[n].msgs \o msgs) = Len(list[n].msgs) + Len(msgs) /\ Len(list[n].msgs) # 0
      BY <3>1
    <3>3. list[n].msgs \o msgs \in Seq(Msg) /\ list[n].msgs \o msgs # <<>>
      BY <3>1, <3>2
    <3> QED BY <1>2, <3>1, <3>3
  <2>3. merged \in Item /\ merged.acked = 0 /\ merged.pending = 0
    BY <2>2, NewItemFields
  <2> HIDE DEF merged
  <2>4. list2 = [list EXCEPT ![Len(list)] = merged]
    BY <1>1, <1>5
  <2>5. Waiting(list2) /\ list2 # <<>> /\ list2[1] = list[1]
    <3>1. Len(list) > 1
      BY <2>1
    <3> HIDE DEF n
    <3> QED BY <2>3, <2>4, <3>1, LastReplaced
  <2>6. list # <<>>
    BY <1>3, <2>1
  <2> QED BY <2>5, <2>6 DEF list2
<1>6. CASE msgs # <<>> /\ ~MayMerge(list, bytes)
  <2>1. new \in Item /\ new.acked = 0 /\ new.pending = 0
    BY <1>2, <1>6, NewItemFields
  <2> HIDE DEF new
  <2>2. list2 = Append(list, new)
    BY <1>1, <1>6
  <2>3. /\ Waiting(list2) /\ list2 # <<>>
        /\ list = <<>> => list2[1] = new
        /\ list # <<>> => list2[1] = list[1]
    BY <2>1, <2>2, ItemAppended
  <2> QED BY <2>1, <2>3 DEF list2
<1> QED BY <1>4, <1>5, <1>6

\* CompressFragments changes a head that is not started, and only its size.
LEMMA FragmentsCompressed ==
  ASSUME NEW list, Waiting(list), NEW list2 \in CompressFragments(list)
  PROVE  /\ Waiting(list2) /\ Len(list2) = Len(list) /\ (list2 = <<>> <=> list = <<>>)
         /\ \A i \in 2 .. Len(list) : list2[i] = list[i]
         /\ list # <<>> =>
              /\ list2[1].acked = list[1].acked /\ list2[1].pending = list[1].pending
              /\ list2[1].msgs = list[1].msgs /\ list2[1].file = list[1].file
              /\ list2[1].bytes = list[1].bytes \/ (list[1].acked = 0 /\ list[1].pending = 0)
<1>1. list \in Seq(Item)
  BY DEF Waiting
<1>2. CASE list2 = list
  BY <1>1, <1>2
<1>3. CASE list2 # list
  <2>1. list # <<>>
    BY <1>3 DEF CompressFragments
  <2>2. PICK b \in {b \in 1 .. list[1].bytes - 1 : MayCompress(list[1])} :
          list2 = [list EXCEPT ![1].bytes = b, ![1].compressed = TRUE]
    BY <1>3, <2>1 DEF CompressFragments
  <2> DEFINE item == [list[1] EXCEPT !.bytes = b, !.compressed = TRUE]
  <2>3. list[1] \in Item /\ Len(list) \in Nat \ {0}
    BY <1>1, <2>1
  <2>4. b \in Nat \ {0} /\ list[1].acked = 0 /\ list[1].pending = 0
    BY <2>2, <2>3 DEF MayCompress, Item
  <2>5. item \in Item
    BY <2>3, <2>4 DEF Item
  <2>6. /\ item.acked = list[1].acked /\ item.pending = list[1].pending
        /\ item.msgs = list[1].msgs /\ item.file = list[1].file
    BY <2>3 DEF Item
  <2>7. list2 = [list EXCEPT ![1] = item]
    BY <1>1, <2>2, <2>3
  <2> HIDE DEF item
  <2>8. /\ Waiting(list2) /\ list2 # <<>> /\ list2[1] = item /\ Len(list2) = Len(list)
        /\ \A i \in 2 .. Len(list) : list2[i] = list[i]
    <3> DEFINE l2 == [list EXCEPT ![1] = item]
    <3>1. /\ Waiting(l2) /\ l2 # <<>> /\ l2[1] = item /\ Len(l2) = Len(list)
          /\ \A i \in 2 .. Len(list) : l2[i] = list[i]
      BY <2>1, <2>5, HeadReplaced, ZenonT(30)
    <3> HIDE DEF l2
    <3>2. list2 = l2
      BY <2>7 DEF l2
    <3> QED BY <3>1, <3>2
  <2> QED BY <2>1, <2>4, <2>6, <2>8
<1> QED BY <1>2, <1>3

\* Both keep what the subchannels carry in agreement with the head.
LEMMA CreatedCarried ==
  ASSUME NEW subs, NEW s \in Stream, NEW list, Waiting(list), Carry(subs, s, list),
         NEW msgs \in Seq(Msg)
  PROVE  Carry(subs, s, CreateFragments(list, msgs))
<1> DEFINE list2 == CreateFragments(list, msgs)
<1>1. /\ Waiting(list2)
      /\ list # <<>> => list2 # <<>> /\ list2[1] = list[1]
      /\ list = <<>> /\ list2 # <<>> => list2[1].acked = 0 /\ list2[1].pending = 0
  BY FragmentsCreated
<1> HIDE DEF list2
<1> SUFFICES Carry(subs, s, list2)
  BY DEF list2
<1>2. CASE list # <<>>
  BY <1>1, <1>2 DEF Carry
<1>3. CASE list = <<>> /\ list2 = <<>>
  BY <1>3 DEF Carry
<1>4. CASE list = <<>> /\ list2 # <<>>
  <2>1. list2[1] \in Item
    BY <1>1, <1>4 DEF Waiting
  <2>2. CarryHead(subs, s, list2[1])
    BY <1>1, <1>4, <2>1, NewHeadCarried DEF Carry
  <2> QED BY <1>4, <2>2 DEF Carry
<1> QED BY <1>2, <1>3, <1>4

\* Compression changes only the size of a head that is not sent yet.
LEMMA CompressedCarried ==
  ASSUME NEW subs, NEW s \in Stream, Fragmented(subs), NEW list, Waiting(list),
         Carry(subs, s, list), NEW list2 \in CompressFragments(list)
  PROVE  Carry(subs, s, list2)
<1>1. /\ Waiting(list2) /\ (list2 = <<>> <=> list = <<>>)
      /\ list # <<>> =>
              /\ list2[1].acked = list[1].acked /\ list2[1].pending = list[1].pending
              /\ list2[1].bytes = list[1].bytes \/ (list[1].acked = 0 /\ list[1].pending = 0)
  BY FragmentsCompressed
<1>2. CASE list = <<>>
  BY <1>1, <1>2 DEF Carry
<1>3. CASE list # <<>> /\ list2[1].bytes = list[1].bytes
  BY <1>1, <1>3 DEF Carry, CarryHead, SentFragments
<1>4. CASE list # <<>> /\ list[1].acked = 0 /\ list[1].pending = 0
  <2>1. list[1] \in Item /\ list2[1] \in Item
    BY <1>1, <1>4 DEF Waiting
  <2>2. Flight(subs, s) = {}
    BY <1>4, <2>1, NothingPending DEF Carry
  <2>3. CarryHead(subs, s, list2[1])
    BY <1>1, <1>4, <2>1, <2>2, NewHeadCarried
  <2> QED BY <1>1, <1>4, <2>3 DEF Carry
<1> QED BY <1>1, <1>2, <1>3, <1>4

\* What a free subchannel may take: no more than the head has left.
LEMMA TakenFragments ==
  ASSUME NEW lists, \A s \in Stream : Unsent(lists[s]) \in Nat, NEW background
  PROVE  LET take == TakeFragments(lists, background)
         IN  /\ take \in [Stream -> 0 .. MaxFragments]
             /\ \A s \in Stream : take[s] <= Unsent(lists[s])
<1> DEFINE take == TakeFragments(lists, background)
           N == Unsent(lists[NORMAL])
           F == Unsent(lists[FILE])
           normal == SmallerOf(MaxFragments, N)
           room == SmallerOf(MaxFragments - normal, F)
           file == IF background THEN SmallerOf(1, room) ELSE room
<1>1. MaxFragments \in Nat /\ N \in Nat /\ F \in Nat
  BY SizeAssumption DEF Stream
<1> HIDE DEF N, F
<1>2. normal \in 0 .. MaxFragments /\ normal <= N
  BY <1>1 DEF SmallerOf
<1> HIDE DEF normal
<1>3. room \in 0 .. MaxFragments /\ room <= F
  BY <1>1, <1>2 DEF SmallerOf
<1> HIDE DEF room
<1>4. file \in 0 .. MaxFragments /\ file <= F
  BY <1>1, <1>3 DEF SmallerOf
<1>5. take = [s \in Stream |-> IF s = NORMAL THEN normal ELSE file]
  BY DEF TakeFragments, normal, room, N, F
<1> HIDE DEF take, file
<1>6. take \in [Stream -> 0 .. MaxFragments]
  BY <1>2, <1>4, <1>5
<1>7. \A s \in Stream : take[s] <= Unsent(lists[s])
  BY <1>2, <1>4, <1>5 DEF Stream, N, F, NORMAL, FILE
<1> QED BY <1>6, <1>7 DEF take

\* The head has its fragments sent or unsent.
LEMMA UnsentLeft ==
  ASSUME NEW subs, NEW s \in Stream, NEW list, Waiting(list), Carry(subs, s, list)
  PROVE  /\ Unsent(list) \in Nat
         /\ list = <<>> => Unsent(list) = 0
         /\ list # <<>> => Unsent(list) = NumFragments(list[1].bytes) - SentFragments(list[1])
<1>1. CASE list = <<>>
  BY <1>1 DEF Unsent
<1>2. CASE list # <<>>
  <2>1. list[1] \in Item
    BY <1>2 DEF Waiting
  <2>2. SentFragments(list[1]) <= NumFragments(list[1].bytes)
    BY <1>2 DEF Carry, CarryHead
  <2> QED BY <1>2, <2>1, <2>2, ItemFields DEF Unsent
<1> QED BY <1>1, <1>2

\* The head after UpdateSubChannels: some of its fragments are pending now.
LEMMA HeadPending ==
  ASSUME NEW list, Waiting(list), list # <<>>, NEW k \in Nat
  PROVE  LET list2 == [list EXCEPT ![1].pending = @ + k]
         IN  /\ Waiting(list2) /\ list2 # <<>> /\ Len(list2) = Len(list)
             /\ \A i \in 2 .. Len(list) : list2[i] = list[i]
             /\ list2[1].pending = list[1].pending + k
             /\ list2[1].acked = list[1].acked /\ list2[1].bytes = list[1].bytes
             /\ list2[1].msgs = list[1].msgs /\ list2[1].file = list[1].file
<1> DEFINE h == list[1]
           item == [h EXCEPT !.pending = h.pending + k]
<1>1. list \in Seq(Item) /\ h \in Item /\ Len(list) \in Nat \ {0}
  BY DEF Waiting
<1>2. /\ item \in Item /\ item.pending = h.pending + k
      /\ item.acked = h.acked /\ item.bytes = h.bytes
      /\ item.msgs = h.msgs /\ item.file = h.file
  <2> HIDE DEF h
  <2>1. h.pending + k \in Nat
    BY <1>1 DEF Item
  <2> QED BY <1>1, <2>1 DEF Item
<1>3. [list EXCEPT ![1].pending = @ + k] = [list EXCEPT ![1] = item]
  BY <1>1
<1> HIDE DEF item
<1> DEFINE l2 == [list EXCEPT ![1] = item]
<1>4. /\ Waiting(l2) /\ l2 # <<>> /\ l2[1] = item /\ Len(l2) = Len(list)
      /\ \A i \in 2 .. Len(list) : l2[i] = list[i]
  BY <1>2, HeadReplaced, ZenonT(30)
<1> HIDE DEF l2
<1>5. [list EXCEPT ![1].pending = @ + k] = l2
  BY <1>3 DEF l2
<1> QED BY <1>2, <1>4, <1>5

\* UpdateSubChannels: the subchannels carry what the heads have pending.
LEMMA UpdatedFlight ==
  ASSUME NEW p \in Peer, WellFormed(sub[p]), Fragmented(sub[p]),
         NEW lists, DOMAIN lists = Stream,
         NEW take \in [Stream -> 0 .. MaxFragments],
         \A s \in Stream : /\ Waiting(lists[s]) /\ Carry(sub[p], s, lists[s])
                           /\ take[s] <= Unsent(lists[s])
  PROVE  LET subs2 == UpdatedSub(p, lists, take)
             lists2 == UpdatedWaiting(p, lists, take)
         IN  /\ Fragmented(subs2) /\ DOMAIN lists2 = Stream
             /\ \A s \in Stream : Waiting(lists2[s]) /\ Carry(subs2, s, lists2[s])
<1> DEFINE subs2 == UpdatedSub(p, lists, take)
           lists2 == UpdatedWaiting(p, lists, take)
<1>1. CASE ~Allocates(p, take)
  BY <1>1 DEF UpdatedSub, UpdatedWaiting
<1>2. CASE Allocates(p, take)
  <2> DEFINE c0 == First(InState(sub[p], "FREE"))
             start0 == [s \in Stream |-> IF take[s] > 0 THEN SentFragments(lists[s][1]) ELSE -1]
             new == [state |-> "TOSEND", seq |-> 0, num |-> take, start |-> start0]
  <2>1. c0 \in SubChannel /\ sub[p][c0].state = "FREE"
    BY <1>2, FirstInState DEF Allocates
  <2>2. subs2 = [sub[p] EXCEPT ![c0] = new]
    BY <1>2 DEF UpdatedSub
  <2>3. /\ DOMAIN lists2 = Stream
        /\ \A s \in Stream : lists2[s] = IF take[s] > 0
                                         THEN [lists[s] EXCEPT ![1].pending = @ + take[s]]
                                         ELSE lists[s]
    BY <1>2 DEF UpdatedWaiting
  <2>4. \A s \in Stream : take[s] \in Nat /\ take[s] \in Int
    BY SizeAssumption
  <2>5. \A s \in Stream : take[s] > 0 =>
          /\ lists[s] # <<>> /\ lists[s][1] \in Item
          /\ SentFragments(lists[s][1]) \in Nat
          /\ take[s] <= NumFragments(lists[s][1].bytes) - SentFragments(lists[s][1])
    <3> SUFFICES ASSUME NEW s \in Stream, take[s] > 0
                 PROVE  /\ lists[s] # <<>> /\ lists[s][1] \in Item
                        /\ SentFragments(lists[s][1]) \in Nat
                        /\ take[s] <= NumFragments(lists[s][1].bytes) - SentFragments(lists[s][1])
      OBVIOUS
    <3>1. Waiting(lists[s]) /\ Carry(sub[p], s, lists[s]) /\ take[s] <= Unsent(lists[s])
      OBVIOUS
    <3>2. /\ lists[s] = <<>> => Unsent(lists[s]) = 0
          /\ lists[s] # <<>> => Unsent(lists[s]) =
               NumFragments(lists[s][1].bytes) - SentFragments(lists[s][1])
      BY <3>1, UnsentLeft
    <3>3. lists[s] # <<>>
      BY <2>4, <3>1, <3>2
    <3>4. lists[s][1] \in Item
      BY <3>1, <3>3 DEF Waiting
    <3>5. SentFragments(lists[s][1]) \in Nat
      BY <3>4, ItemFields
    <3> QED BY <3>1, <3>2, <3>3, <3>4, <3>5
  <2>6. start0 \in [Stream -> Int] /\ \A s \in Stream : take[s] > 0 => start0[s] = SentFragments(lists[s][1])
    BY <2>5
  <2>7. new.state = "TOSEND" /\ new.num = take /\ new.start = start0
    OBVIOUS
  <2> HIDE DEF start0, c0, new, subs2, lists2
  <2>8. subs2[c0] = new /\ \A c \in SubChannel : c # c0 => subs2[c] = sub[p][c]
    BY <2>1, <2>2 DEF WellFormed
  <2>9. Fragmented(subs2)
    BY <2>6, <2>7, <2>8 DEF Fragmented
  <2>10. ASSUME NEW s \in Stream
         PROVE  Waiting(lists2[s]) /\ Carry(subs2, s, lists2[s])
    <3>0. subs2[c0].state = "TOSEND" /\ subs2[c0].num[s] = take[s] /\ subs2[c0].start[s] = start0[s]
      BY <2>7, <2>8
    <3>1. CASE take[s] > 0
      <4> DEFINE l1 == lists[s]
                 k == take[s]
                 l2 == [l1 EXCEPT ![1].pending = @ + k]
      <4>1. Waiting(l1) /\ l1 # <<>> /\ k \in Nat
        BY <2>4, <2>5, <3>1
      <4>3. lists2[s] = l2
        BY <2>3, <3>1
      <4> HIDE DEF l1, k
      <4>2. /\ Waiting(l2) /\ l2 # <<>>
            /\ l2[1].pending = l1[1].pending + k
            /\ l2[1].acked = l1[1].acked /\ l2[1].bytes = l1[1].bytes
        BY <4>1, HeadPending, ZenonT(30)
      <4> HIDE DEF l2
      <4>4. l1[1] \in Item /\ l2[1] \in Item /\ CarryHead(sub[p], s, l1[1])
        BY <2>5, <3>1, <4>1, <4>2 DEF Waiting, Carry, l1
      <4> DEFINE head == l1[1]
                 head2 == l2[1]
      <4>5. /\ k = subs2[c0].num[s]
            /\ k <= NumFragments(head.bytes) - SentFragments(head)
            /\ k > 0 => subs2[c0].start[s] = SentFragments(head)
            /\ head2.acked = head.acked /\ head2.pending = head.pending + k
            /\ head2.bytes = head.bytes
            /\ head \in Item /\ head2 \in Item /\ CarryHead(sub[p], s, head)
        BY <2>5, <2>6, <3>0, <3>1, <4>2, <4>4 DEF l1, k
      <4> HIDE DEF head, head2
      <4>6. CarryHead(subs2, s, head2)
        BY <2>1, <2>8, <2>9, <3>0, <4>5, FlightGains
      <4> QED BY <4>2, <4>3, <4>6 DEF Carry, head2
    <3>2. CASE ~(take[s] > 0)
      <4>1. lists2[s] = lists[s] /\ take[s] = 0
        BY <2>3, <2>4, <3>2
      <4>2. CASE lists[s] = <<>>
        <5>1. Flight(sub[p], s) = {}
          BY <4>2 DEF Carry
        <5>2. Flight(subs2, s) = {}
          BY <2>8, <3>0, <4>1, <5>1 DEF Flight
        <5> QED BY <4>1, <4>2, <5>2 DEF Carry
      <4>3. CASE lists[s] # <<>>
        <5> DEFINE head == lists[s][1]
                   k == take[s]
        <5>1. head \in Item /\ CarryHead(sub[p], s, head)
          BY <4>3 DEF Waiting, Carry
        <5>2. /\ head.pending = head.pending + k /\ k = subs2[c0].num[s]
              /\ k <= NumFragments(head.bytes) - SentFragments(head) /\ ~(k > 0)
          <6>1. SentFragments(head) <= NumFragments(head.bytes)
            BY <5>1 DEF CarryHead
          <6> HIDE DEF head
          <6> QED BY <3>0, <4>1, <5>1, <6>1, ItemFields
        <5> HIDE DEF head, k
        <5>3. CarryHead(subs2, s, head)
          BY <2>1, <2>8, <2>9, <3>0, <5>1, <5>2, FlightGains
        <5> QED BY <4>1, <4>3, <5>3 DEF Carry, head
      <4> QED BY <4>2, <4>3
    <3> QED BY <3>1, <3>2
  <2> QED BY <2>3, <2>9, <2>10 DEF subs2, lists2
<1> QED BY <1>1, <1>2

-----------------------------------------------------------------------------
(* ProcessPacketHeader *)

\* What a valid header leaves of the fragments of one subchannel.
LEMMA HeaderFragments ==
  ASSUME NEW p \in Peer, NEW q, WellFormed(sub[p]), Fragmented(sub[p]), ValidHeader(p, q),
         NEW c \in SubChannel
  PROVE  LET new == HeaderSub(p, q)[c]
         IN  /\ new.num \in [Stream -> 0 .. MaxFragments] /\ new.start \in [Stream -> Int]
             /\ c \in AckedSubs(p, q) => new.state = "FREE"
             /\ c \notin AckedSubs(p, q) =>
                  (new.state \in {"TOSEND", "WAITING"} <=> sub[p][c].state \in {"TOSEND", "WAITING"})
             /\ new.state \in {"TOSEND", "WAITING"} =>
                  new.num = sub[p][c].num /\ new.start = sub[p][c].start
<1> DEFINE new == HeaderSub(p, q)[c]
<1>1. Reached(p, q, c)
  BY DEF Reached, ValidHeader
<1>2. c \in AckedSubs(p, q) <=> Acknowledged(p, q, c) /\ sub[p][c].state = "WAITING"
  BY <1>1 DEF AckedSubs
<1>3. CASE Acknowledged(p, q, c) /\ sub[p][c].state \in {"WAITING", "DIRTY"}
  <2>1. new = FreeSub
    BY <1>1, <1>3 DEF HeaderSub, Missed
  <2> HIDE DEF new
  <2> QED BY <1>2, <1>3, <2>1, FreeFragments DEF new
<1>4. CASE Missed(p, q, c) /\ sub[p][c].state = "WAITING"
  <2>1. new = [sub[p][c] EXCEPT !.state = "TOSEND"]
    BY <1>1, <1>4 DEF HeaderSub, Missed
  <2>2. ~Acknowledged(p, q, c)
    BY <1>4 DEF Missed
  <2> HIDE DEF new
  <2>3. new.state = "TOSEND" /\ new.num = sub[p][c].num /\ new.start = sub[p][c].start
    BY <2>1 DEF WellFormed
  <2> QED BY <1>2, <1>4, <2>2, <2>3 DEF Fragmented, new
<1>5. CASE Missed(p, q, c) /\ sub[p][c].state = "DIRTY"
  <2>1. new = FreeSub
    BY <1>1, <1>5 DEF HeaderSub, Missed
  <2> HIDE DEF new
  <2> QED BY <1>2, <1>5, <2>1, FreeFragments DEF new
<1>6. CASE \/ sub[p][c].state \notin {"WAITING", "DIRTY"}
           \/ ~Acknowledged(p, q, c) /\ ~Missed(p, q, c)
  <2>1. new = sub[p][c]
    BY <1>1, <1>6 DEF HeaderSub, Missed
  <2> HIDE DEF new
  <2> QED BY <1>2, <1>6, <2>1 DEF Fragmented, new
<1> QED BY <1>3, <1>4, <1>5, <1>6

\* What the header acknowledges of a head: the rest stays pending.
LEMMA HeadAcknowledged ==
  ASSUME NEW list, Waiting(list), list # <<>>, NEW n \in Int,
         n <= list[1].pending, n >= 0
  PROVE  LET list2 == [list EXCEPT ![1].acked = @ + n, ![1].pending = @ - n]
         IN  /\ Waiting(list2) /\ list2 # <<>> /\ Len(list2) = Len(list)
             /\ \A i \in 2 .. Len(list) : list2[i] = list[i]
             /\ list2[1].pending = list[1].pending - n
             /\ list2[1].acked = list[1].acked + n /\ list2[1].bytes = list[1].bytes
             /\ list2[1].msgs = list[1].msgs /\ list2[1].file = list[1].file
<1> DEFINE h == list[1]
           item == [h EXCEPT !.acked = h.acked + n, !.pending = h.pending - n]
<1>1. list \in Seq(Item) /\ h \in Item /\ Len(list) \in Nat \ {0}
  BY DEF Waiting
<1>2. /\ item \in Item /\ item.pending = h.pending - n
      /\ item.acked = h.acked + n /\ item.bytes = h.bytes
      /\ item.msgs = h.msgs /\ item.file = h.file
  <2>0. n <= h.pending
    OBVIOUS
  <2> HIDE DEF h
  <2>1. h.pending - n \in Nat /\ h.acked + n \in Nat
    BY <1>1, <2>0 DEF Item
  <2> QED BY <1>1, <2>1 DEF Item
<1>3. [list EXCEPT ![1].acked = @ + n, ![1].pending = @ - n] = [list EXCEPT ![1] = item]
  BY <1>1
<1> HIDE DEF item
<1> DEFINE l2 == [list EXCEPT ![1] = item]
<1>4. /\ Waiting(l2) /\ l2 # <<>> /\ l2[1] = item /\ Len(l2) = Len(list)
      /\ \A i \in 2 .. Len(list) : l2[i] = list[i]
  BY <1>2, HeadReplaced, ZenonT(30)
<1> HIDE DEF l2
<1>5. [list EXCEPT ![1].acked = @ + n, ![1].pending = @ - n] = l2
  BY <1>3 DEF l2
<1> QED BY <1>2, <1>4, <1>5

\* A part of a flight has no more fragments than the head has pending.
LEMMA PartPending ==
  ASSUME NEW subs, NEW s \in Stream, Fragmented(subs), NEW head \in Item,
         CarryHead(subs, s, head), NEW A \in SUBSET SubChannel,
         \A c \in A : c \in Flight(subs, s) \/ subs[c].num[s] = 0
  PROVE  /\ SumFunctionOnSet(NumsOf(subs, s), A) \in Nat
         /\ SumFunctionOnSet(NumsOf(subs, s), A) <= head.pending
<1> DEFINE F == Flight(subs, s)
           f == NumsOf(subs, s)
<1>1. /\ IsFiniteSet(SubChannel) /\ IsFiniteSet(F) /\ F \in SUBSET SubChannel
      /\ \A c \in SubChannel : f[c] \in Nat /\ f[c] = subs[c].num[s]
  BY FlightFinite
<1>2. \A c \in A \ F : f[c] = 0
  BY <1>1
<1>3. head.pending = SumFunctionOnSet(f, F)
  BY DEF CarryHead
<1> HIDE DEF F, f
<1>4. /\ IsFiniteSet(A) /\ IsFiniteSet(A \ F) /\ IsFiniteSet(A \cap F) /\ IsFiniteSet(F \ A)
  BY <1>1, FS_Subset
<1>5. SumFunctionOnSet(f, A) = SumFunctionOnSet(f, A \cap F) + SumFunctionOnSet(f, A \ F)
  <2>1. A \cap F \in SUBSET A /\ A \ (A \cap F) = A \ F /\ \A c \in A : f[c] \in Int
    BY <1>1
  <2> QED BY <1>4, <2>1, SumParts
<1>6. SumFunctionOnSet(f, F) = SumFunctionOnSet(f, A \cap F) + SumFunctionOnSet(f, F \ A)
  <2>1. A \cap F \in SUBSET F /\ F \ (A \cap F) = F \ A /\ \A c \in F : f[c] \in Int
    BY <1>1
  <2> QED BY <1>1, <2>1, SumParts
<1>7. /\ SumFunctionOnSet(f, A \cap F) \in Nat
      /\ SumFunctionOnSet(f, A \ F) \in Nat
      /\ SumFunctionOnSet(f, F \ A) \in Nat
  <2>1. /\ \A c \in A \cap F : f[c] \in Nat
        /\ \A c \in A \ F : f[c] \in Nat
        /\ \A c \in F \ A : f[c] \in Nat
    BY <1>1
  <2> QED BY <1>4, <2>1, SumNat
<1>8. ~(SumFunctionOnSet(f, A \ F) > 0)
  <2>1. \A c \in A \ F : f[c] \in Int /\ ~(f[c] > 0)
    BY <1>2
  <2> QED BY <1>4, <2>1, SumPositive
<1> QED BY <1>3, <1>5, <1>6, <1>7, <1>8 DEF f

\* The waiting list of a stream after the acknowledgements of a header and
\* before CheckWaitingList.
LEMMA HeaderFlight ==
  ASSUME NEW p \in Peer, NEW q, WellFormed(sub[p]), Fragmented(sub[p]), ValidHeader(p, q),
         NEW s \in Stream, NEW list, list = waitingList[p][s], Waiting(list), Carry(sub[p], s, list)
  PROVE  \E list2 :
           /\ Waiting(list2) /\ Len(list2) = Len(list) /\ (list2 = <<>> <=> list = <<>>)
           /\ \A i \in 2 .. Len(list) : list2[i] = list[i]
           /\ list # <<>> =>
                /\ list2[1].msgs = list[1].msgs /\ list2[1].file = list[1].file
                /\ list2[1].bytes = list[1].bytes
                /\ list2[1].acked = list[1].acked + AckedFragments(p, q, s)
                /\ SentFragments(list2[1]) = SentFragments(list[1])
                /\ AckedFragments(p, q, s) \in Nat
           /\ Carry(HeaderSub(p, q), s, list2)
           /\ HeaderWaiting(p, q)[s] = CheckWaitingList(list2, q.ack)
<1> DEFINE n == AckedFragments(p, q, s)
           A == AckedSubs(p, q)
           subs == sub[p]
           subs2 == HeaderSub(p, q)
           list2 == IF list = <<>> \/ n = 0 THEN list
                    ELSE [list EXCEPT ![1].acked = @ + n, ![1].pending = @ - n]
<1>1. HeaderWaiting(p, q)[s] = CheckWaitingList(list2, q.ack)
  BY DEF HeaderWaiting
<1>2. /\ Fragmented(subs2) /\ A \in SUBSET SubChannel
      /\ Flight(subs2, s) = Flight(subs, s) \ A
      /\ \A c \in Flight(subs2, s) : subs2[c].num = subs[c].num /\ subs2[c].start = subs[c].start
  <2>1. Fragmented(subs2)
    BY HeaderFragments DEF Fragmented
  <2>2. A \in SUBSET SubChannel
    BY DEF AckedSubs
  <2>3. \A c \in Flight(subs2, s) : subs2[c].num = subs[c].num /\ subs2[c].start = subs[c].start
    BY HeaderFragments DEF Flight
  <2>4. ASSUME NEW c \in SubChannel
        PROVE  c \in Flight(subs2, s) <=> c \in Flight(subs, s) \ A
    <3>1. /\ c \in A => subs2[c].state = "FREE"
          /\ c \notin A =>
               (subs2[c].state \in {"TOSEND", "WAITING"} <=> subs[c].state \in {"TOSEND", "WAITING"})
          /\ subs2[c].state \in {"TOSEND", "WAITING"} => subs2[c].num = subs[c].num
      BY HeaderFragments
    <3> HIDE DEF A, subs, subs2
    <3>2. CASE c \in A
      BY <3>1, <3>2 DEF Flight
    <3>3. CASE c \notin A
      BY <3>1, <3>3 DEF Flight
    <3> QED BY <3>2, <3>3
  <2>5. Flight(subs2, s) \subseteq SubChannel /\ Flight(subs, s) \subseteq SubChannel
    BY DEF Flight
  <2>6. Flight(subs2, s) = Flight(subs, s) \ A
    BY ONLY <2>4, <2>5
  <2> QED BY <2>1, <2>2, <2>3, <2>6
<1>3. \A c \in A : c \in Flight(subs, s) \/ subs[c].num[s] = 0
  BY FlightFinite DEF AckedSubs, Flight, Fragmented
<1>4. n = SumFunctionOnSet(NumsOf(subs, s), A)
  BY DEF AckedFragments, Numbers, NumsOf
<1>5. CASE list = <<>>
  <2>1. list2 = list
    BY <1>5
  <2>2. Carry(subs2, s, list2)
    BY <1>2, <1>5 DEF Carry
  <2> HIDE DEF list2, subs2, n
  <2> QED BY <1>1, <1>5, <2>1, <2>2 DEF subs2
<1>6. CASE list # <<>>
  <2> DEFINE head == list[1]
             head2 == list2[1]
  <2>1. head \in Item /\ CarryHead(subs, s, head)
    BY <1>6 DEF Waiting, Carry
  <2>2. n \in Nat /\ n <= head.pending
    <3> HIDE DEF head, n, A, subs
    <3>0. Fragmented(subs)
      BY DEF subs
    <3> QED BY <1>2, <1>3, <1>4, <2>1, <3>0, PartPending
  <2>3. /\ Waiting(list2) /\ list2 # <<>> /\ Len(list2) = Len(list)
        /\ \A i \in 2 .. Len(list) : list2[i] = list[i]
        /\ head2.pending = head.pending - n
        /\ head2.acked = head.acked + n /\ head2.bytes = head.bytes
        /\ head2.msgs = head.msgs /\ head2.file = head.file
    <3>1. CASE n = 0
      <4>1. list2 = list /\ Waiting(list)
        BY <3>1
      <4> HIDE DEF n
      <4>2. head.pending - n = head.pending /\ head.acked + n = head.acked
        BY <2>1, <3>1, ItemFields
      <4> HIDE DEF list2
      <4> QED BY <1>6, <4>1, <4>2
    <3>2. CASE n # 0
      <4> HIDE DEF n
      <4> DEFINE l2 == [list EXCEPT ![1].acked = @ + n, ![1].pending = @ - n]
      <4>0. n \in Int /\ n >= 0 /\ n <= list[1].pending
        BY <2>2
      <4>1. /\ Waiting(l2) /\ l2 # <<>> /\ Len(l2) = Len(list)
            /\ \A i \in 2 .. Len(list) : l2[i] = list[i]
            /\ l2[1].pending = list[1].pending - n
            /\ l2[1].acked = list[1].acked + n /\ l2[1].bytes = list[1].bytes
            /\ l2[1].msgs = list[1].msgs /\ l2[1].file = list[1].file
        <5>1. Waiting(list)
          OBVIOUS
        <5> QED BY ONLY <1>6, <4>0, <5>1, HeadAcknowledged, ZenonT(30)
      <4>2. list2 = l2
        BY <1>6, <3>2
      <4> HIDE DEF l2, list2
      <4> QED BY <4>1, <4>2
    <3> QED BY <3>1, <3>2
  <2> HIDE DEF list2
  <2>4. head2 \in Item
    BY <2>3 DEF Waiting
  <2> HIDE DEF head, head2
  <2>5. CarryHead(subs2, s, head2)
    <3> HIDE DEF n, A, subs, subs2
    <3>0. Fragmented(subs)
      BY DEF subs
    <3> QED BY <1>2, <1>3, <1>4, <2>1, <2>3, <2>4, <3>0, FlightLoses
  <2>6. Carry(subs2, s, list2)
    BY <2>3, <2>5 DEF Carry, head2
  <2>7. SentFragments(head2) = SentFragments(head)
    BY <2>1, <2>2, <2>3, <2>4, ItemFields
  <2> HIDE DEF n, subs2
  <2> QED BY <1>1, <1>6, <2>2, <2>3, <2>6, <2>7 DEF head, head2, n, subs2
<1> QED BY <1>5, <1>6

\* CheckWaitingList drops a head that has nothing pending.
LEMMA CheckedCarried ==
  ASSUME NEW subs, NEW s \in Stream, Fragmented(subs), NEW list, Waiting(list),
         Carry(subs, s, list), NEW ack
  PROVE  Waiting(CheckWaitingList(list, ack)) /\ Carry(subs, s, CheckWaitingList(list, ack))
<1>1. CASE CheckWaitingList(list, ack) = list
  BY <1>1
<1>2. CASE CheckWaitingList(list, ack) # list
  <2>1. /\ list # <<>> /\ list[1].acked = NumFragments(list[1].bytes)
        /\ CheckWaitingList(list, ack) = Tail(list)
    BY <1>2 DEF CheckWaitingList
  <2>2. list[1] \in Item /\ CarryHead(subs, s, list[1])
    BY <2>1 DEF Waiting, Carry
  <2>3. list[1].pending = 0
    <3>1. SentFragments(list[1]) <= NumFragments(list[1].bytes)
      BY <2>2 DEF CarryHead
    <3> QED BY <2>1, <2>2, <3>1, ItemFields
  <2>4. Flight(subs, s) = {}
    BY <2>2, <2>3, NothingPending
  <2>5. /\ Waiting(Tail(list))
        /\ Tail(list) # <<>> => Tail(list)[1].acked = 0 /\ Tail(list)[1].pending = 0
    BY <2>1, HeadRemoved
  <2>6. Tail(list) # <<>> => Tail(list)[1] \in Item
    BY <2>5 DEF Waiting
  <2>7. Tail(list) # <<>> => CarryHead(subs, s, Tail(list)[1])
    BY <2>4, <2>5, <2>6, NewHeadCarried
  <2>8. Carry(subs, s, Tail(list))
    BY <2>4, <2>7 DEF Carry
  <2> QED BY <2>1, <2>5, <2>8
<1> QED BY <1>1, <1>2

-----------------------------------------------------------------------------
(* Fragments under way and in buffers *)

\* The fragments of one stream in a packet; an allocated receive buffer.
Piece(d) ==
  /\ d \in [item : Seq(Msg) \ {<<>>}, frags : Nat \ {0}, file : BOOLEAN, start : Nat, num : Nat \ {0}]
  /\ d.start + d.num <= d.frags
Allocated(r) ==
  /\ DOMAIN r = {"item", "frags", "file", "acked", "buf"}
  /\ r.item \in Seq(Msg) \ {<<>>} /\ r.frags \in Nat \ {0} /\ r.file \in BOOLEAN
  /\ r.acked \in Nat \ {0} /\ DOMAIN r.buf = 0 .. r.frags - 1

\* No record with an item is the empty one.
LEMMA NotEmpty ==
  /\ NoData = [item |-> <<>>] /\ NoBuffer = [item |-> <<>>]
  /\ \A d : Piece(d) => d # NoData
  /\ \A r : Allocated(r) => r # NoBuffer
<1>1. NoData = [item |-> <<>>] /\ NoBuffer = [item |-> <<>>]
  BY DEF NoData, NoBuffer
<1>2. [item |-> <<>>].item = <<>>
  OBVIOUS
<1>3. \A d : Piece(d) => d.item # <<>>
  BY DEF Piece
<1>4. \A r : Allocated(r) => r.item # <<>>
  BY DEF Allocated
<1> QED BY <1>1, <1>2, <1>3, <1>4

\* What SendSubChannelData writes for a subchannel that is to be sent.
LEMMA PieceWritten ==
  ASSUME NEW subs, Fragmented(subs), NEW s \in Stream, NEW list, Waiting(list), Carry(subs, s, list),
         NEW c \in SubChannel, subs[c].state = "TOSEND"
  PROVE  LET d == StreamData(subs[c], list, s)
         IN  /\ subs[c].num[s] = 0 => d = NoData
             /\ subs[c].num[s] > 0 =>
                  /\ Piece(d) /\ list # <<>> /\ c \in Flight(subs, s)
                  /\ d.item = list[1].msgs /\ d.frags = NumFragments(list[1].bytes)
                  /\ d.file = list[1].file /\ d.start = subs[c].start[s] /\ d.num = subs[c].num[s]
             /\ subs[c].num[s] = 0 \/ subs[c].num[s] > 0
<1>1. subs[c].num[s] \in Nat /\ subs[c].start[s] \in Int
  BY SizeAssumption DEF Fragmented
<1>2. CASE subs[c].num[s] = 0
  BY <1>1, <1>2 DEF StreamData
<1>3. CASE subs[c].num[s] > 0
  <2>1. c \in Flight(subs, s)
    BY <1>3 DEF Flight
  <2>2. list # <<>>
    BY <2>1 DEF Carry
  <2>3. list[1] \in Item /\ CarryHead(subs, s, list[1])
    BY <2>2 DEF Waiting, Carry
  <2> DEFINE d == StreamData(subs[c], list, s)
             N == NumFragments(list[1].bytes)
             a == subs[c].start[s]
             k == subs[c].num[s]
             e == [item |-> list[1].msgs, frags |-> N, file |-> list[1].file, start |-> a, num |-> k]
  <2>4. d = e
    BY <1>1, <1>3 DEF StreamData
  <2>5. /\ N \in Nat \ {0} /\ a \in Nat /\ k \in Nat \ {0} /\ a + k <= N
        /\ list[1].msgs \in Seq(Msg) \ {<<>>} /\ list[1].file \in BOOLEAN
    <3>1. 0 <= a /\ a + k <= SentFragments(list[1]) /\ SentFragments(list[1]) <= N
      BY <2>1, <2>3 DEF CarryHead
    <3>2. list[1].msgs \in Seq(Msg) \ {<<>>} /\ list[1].file \in BOOLEAN
      BY <2>3 DEF Item
    <3>3. N \in Nat \ {0} /\ SentFragments(list[1]) \in Nat
      BY <2>3, ItemFields
    <3> HIDE DEF a, k, N
    <3>4. a \in Int /\ k \in Nat /\ k > 0
      BY <1>1, <1>3 DEF a, k
    <3> QED BY <3>1, <3>2, <3>3, <3>4
  <2> HIDE DEF a, k, N
  <2>6. Piece(e)
    BY <2>5 DEF Piece
  <2>7. /\ e.item = list[1].msgs /\ e.frags = N
        /\ e.file = list[1].file /\ e.start = a /\ e.num = k
    OBVIOUS
  <2> HIDE DEF e
  <2>8. d = e => (Piece(d) /\ d.item = list[1].msgs /\ d.frags = N
                  /\ d.file = list[1].file /\ d.start = a /\ d.num = k)
    BY <2>6, <2>7
  <2> HIDE DEF d
  <2>9. Piece(d) /\ d.item = list[1].msgs /\ d.frags = N
        /\ d.file = list[1].file /\ d.start = a /\ d.num = k
    BY <2>4, <2>8
  <2> QED BY <1>1, <1>3, <2>1, <2>2, <2>9 DEF d, N, a, k
<1> QED BY <1>1, <1>2, <1>3

\* ReadSubChannelData leaves a buffer with something in it, or none.
LEMMA BufferRead ==
  ASSUME NEW r, r = NoBuffer \/ Allocated(r), NEW d, Piece(d)
  PROVE  /\ d.start = 0 => CanRead(r, d)
         /\ ~CanRead(r, d) => ReadData(r, d) = r
         /\ CanRead(r, d) =>
              /\ Allocated(ReadData(r, d))
              /\ d.start = 0 =>
                   /\ ReadData(r, d).item = d.item /\ ReadData(r, d).frags = d.frags
                   /\ ReadData(r, d).file = d.file /\ ReadData(r, d).acked = d.num
                   /\ \A i \in 0 .. d.frags - 1 : ReadData(r, d).buf[i] =
                        IF i \in d.start .. d.start + d.num - 1 THEN d.item ELSE Junk
              /\ d.start # 0 =>
                   /\ Allocated(r) /\ d.start + d.num <= r.frags
                   /\ ReadData(r, d).item = r.item /\ ReadData(r, d).frags = r.frags
                   /\ ReadData(r, d).file = r.file /\ ReadData(r, d).acked = r.acked + d.num
                   /\ \A i \in 0 .. r.frags - 1 : ReadData(r, d).buf[i] =
                        IF i \in d.start .. d.start + d.num - 1 THEN d.item ELSE r.buf[i]
         /\ ReadData(r, d) = NoBuffer \/ Allocated(ReadData(r, d))
<1> DEFINE o == Opened(r, d)
           x == ReadData(r, d)
           fresh == [item |-> d.item, frags |-> d.frags, file |-> d.file, acked |-> 0,
                     buf |-> [i \in 0 .. d.frags - 1 |-> Junk]]
           buf2 == [i \in DOMAIN o.buf |->
                      IF i \in d.start .. d.start + d.num - 1 THEN d.item ELSE o.buf[i]]
<1>1. /\ d.item \in Seq(Msg) \ {<<>>} /\ d.frags \in Nat \ {0} /\ d.file \in BOOLEAN
      /\ d.start \in Nat /\ d.num \in Nat \ {0} /\ d.start + d.num <= d.frags
  BY DEF Piece
<1>2. d.start = 0 => o = fresh
  BY DEF Opened
<1>3. d.start # 0 => o = r
  BY DEF Opened
<1>4. /\ fresh.item = d.item /\ fresh.frags = d.frags /\ fresh.file = d.file
      /\ fresh.acked = 0 /\ DOMAIN fresh = {"item", "frags", "file", "acked", "buf"}
      /\ DOMAIN fresh.buf = 0 .. d.frags - 1
      /\ \A i \in 0 .. d.frags - 1 : fresh.buf[i] = Junk
  OBVIOUS
<1>5. CanRead(r, d) <=> o # NoBuffer /\ d.start + d.num <= o.frags
  BY DEF CanRead
<1>6. CanRead(r, d) => x = [o EXCEPT !.acked = o.acked + d.num, !.buf = buf2]
  BY DEF ReadData
<1>7. ~CanRead(r, d) => x = o
  BY DEF ReadData
<1> HIDE DEF fresh, o, x
<1>8. fresh # NoBuffer
  <2>1. [item |-> <<>>].item = <<>>
    OBVIOUS
  <2> QED BY <1>1, <1>4, <2>1, NotEmpty
<1>9. d.start = 0 => CanRead(r, d)
  BY <1>1, <1>2, <1>4, <1>5, <1>8
<1>10. ~CanRead(r, d) => x = r
  BY <1>3, <1>7, <1>9
<1>11. ASSUME CanRead(r, d),
              DOMAIN o = {"item", "frags", "file", "acked", "buf"}
       PROVE  /\ DOMAIN x = {"item", "frags", "file", "acked", "buf"}
              /\ x.item = o.item /\ x.frags = o.frags /\ x.file = o.file
              /\ x.acked = o.acked + d.num /\ x.buf = buf2
  <2> HIDE DEF buf2
  <2> QED BY <1>6, <1>11
<1>12. CASE CanRead(r, d) /\ d.start = 0
  <2>1. o = fresh /\ DOMAIN o = {"item", "frags", "file", "acked", "buf"}
    BY <1>2, <1>4, <1>12
  <2>2. /\ DOMAIN x = {"item", "frags", "file", "acked", "buf"}
        /\ x.item = d.item /\ x.frags = d.frags /\ x.file = d.file
        /\ x.acked = 0 + d.num /\ x.buf = buf2
    BY <1>4, <1>11, <1>12, <2>1
  <2>3. /\ DOMAIN buf2 = 0 .. d.frags - 1
        /\ \A i \in 0 .. d.frags - 1 : buf2[i] =
             IF i \in d.start .. d.start + d.num - 1 THEN d.item ELSE Junk
    BY <1>4, <2>1
  <2> HIDE DEF buf2
  <2>4. x.acked = d.num
    BY <1>1, <2>2
  <2>5. Allocated(x)
    BY <1>1, <2>2, <2>3, <2>4 DEF Allocated
  <2> QED BY <1>9, <1>10, <1>12, <2>2, <2>3, <2>4, <2>5 DEF x
<1>13. CASE CanRead(r, d) /\ d.start # 0
  <2>1. o = r /\ r # NoBuffer /\ d.start + d.num <= r.frags
    BY <1>3, <1>5, <1>13
  <2>2. Allocated(r)
    BY <2>1
  <2>3. DOMAIN o = {"item", "frags", "file", "acked", "buf"}
    BY <2>1, <2>2 DEF Allocated
  <2>4. /\ DOMAIN x = {"item", "frags", "file", "acked", "buf"}
        /\ x.item = r.item /\ x.frags = r.frags /\ x.file = r.file
        /\ x.acked = r.acked + d.num /\ x.buf = buf2
    BY <1>11, <1>13, <2>1, <2>3
  <2>5. /\ DOMAIN buf2 = 0 .. r.frags - 1
        /\ \A i \in 0 .. r.frags - 1 : buf2[i] =
             IF i \in d.start .. d.start + d.num - 1 THEN d.item ELSE r.buf[i]
    BY <2>1, <2>2 DEF Allocated
  <2> HIDE DEF buf2
  <2>6. r.acked + d.num \in Nat \ {0}
    BY <1>1, <2>2 DEF Allocated
  <2>7. Allocated(x)
    BY <2>2, <2>4, <2>5, <2>6 DEF Allocated
  <2> QED BY <1>9, <1>10, <1>13, <2>1, <2>2, <2>4, <2>5, <2>7 DEF x
<1>14. CASE ~CanRead(r, d)
  BY <1>9, <1>10, <1>14 DEF x
<1> QED BY <1>12, <1>13, <1>14

-----------------------------------------------------------------------------
(* The inductive invariant of the fragments, on top of IInv *)

Loaded(subs, lists) ==
  /\ Fragmented(subs) /\ DOMAIN lists = Stream
  /\ \A s \in Stream : Waiting(lists[s]) /\ Carry(subs, s, lists[s])

Sending ==
  /\ streamReliable \in [Peer -> Seq(Msg)]
  /\ DOMAIN waitingList = Peer
  /\ \A p \in Peer : Loaded(sub[p], waitingList[p])

Buffers(lists) ==
  /\ DOMAIN lists = Stream
  /\ \A s \in Stream : lists[s] = NoBuffer \/ Allocated(lists[s])
Pieces(q) == \A s \in Stream : q.data[s] = NoData \/ Piece(q.data[s])

Receiving ==
  /\ DOMAIN receiveList = Peer
  /\ \A p \in Peer : Buffers(receiveList[p])
  /\ \A p \in Peer : \A q \in net[p] : Pieces(q)

Histories ==
  /\ sent \in [Peer -> [Stream -> Nat]]
  /\ \A p \in Peer, s \in Stream : sent[p][s] <= Len(Outbox[p][s])
  /\ delivered \in [Peer -> [Stream -> Seq(Msg \cup {Garbled})]]
  /\ clears \in [Peer -> Nat] /\ chokes \in 0 .. MaxChokes
  /\ torn \subseteq Peer

DInv == Sending /\ Receiving /\ Histories

\* Setup establishes it.
LEMMA InitDInv == Init => DInv
<1> SUFFICES ASSUME Init PROVE DInv
  OBVIOUS
<1>1. Sending
  <2>1. Waiting(<<>>)
    BY DEF Waiting
  <2>2. Fragmented(InitialSub) /\ \A s \in Stream : Flight(InitialSub, s) = {}
    BY FreeFragments DEF Fragmented, Flight, InitialSub
  <2>3. \A s \in Stream : Carry(InitialSub, s, <<>>)
    BY <2>2 DEF Carry
  <2> QED
    BY <2>1, <2>2, <2>3 DEF Init, Sending, Loaded, NoLists
<1>2. Receiving
  BY DEF Init, Receiving, Buffers, NoLists
<1>3. Histories
  <2>1. \A p \in Peer, s \in Stream : Len(Outbox[p][s]) \in Nat
    BY MessageAssumption
  <2> QED BY <2>1, BoundAssumption DEF Init, Histories, NoLists
<1> QED BY <1>1, <1>2, <1>3 DEF DInv

\* Each part rests on a few variables.
LEMMA SendingSame ==
  ASSUME Sending, UNCHANGED <<streamReliable, waitingList, sub>> PROVE Sending'
BY DEF Sending
\* The receiving half on these.
LEMMA ReceivingSame ==
  ASSUME Receiving, UNCHANGED <<receiveList, net>> PROVE Receiving'
BY DEF Receiving
\* The histories on themselves.
LEMMA HistoriesSame ==
  ASSUME Histories, UNCHANGED <<sent, delivered, clears, chokes, torn>> PROVE Histories'
BY DEF Histories

\* Handing data to the channel.
LEMMA SendNetMsgDInv ==
  ASSUME DInv, NEW p \in Peer, SendNetMsg(p) PROVE DInv'
<1> DEFINE m == Outbox[p][NORMAL][sent[p][NORMAL] + 1]
<1>1. /\ streamReliable' = [streamReliable EXCEPT ![p] = Append(streamReliable[p], m)]
      /\ sent' = [sent EXCEPT ![p][NORMAL] = @ + 1]
      /\ sent[p][NORMAL] < Len(Outbox[p][NORMAL])
      /\ UNCHANGED <<sub, waitingList, receiveList, net, delivered, clears, chokes, torn>>
  BY DEF SendNetMsg, headerVars
<1>2. NORMAL \in Stream
  BY DEF Stream
<1>3. sent[p][NORMAL] \in Nat /\ Outbox[p][NORMAL] \in Seq(Msg)
  BY <1>2, MessageAssumption DEF DInv, Histories
<1>4. m \in Msg
  BY <1>1, <1>3
<1> HIDE DEF m
<1>5. Sending'
  BY <1>1, <1>4 DEF DInv, Sending
<1>6. Receiving'
  BY <1>1, ReceivingSame DEF DInv
<1>7. Histories'
  <2>1. sent' \in [Peer -> [Stream -> Nat]]
    BY <1>1, <1>2, <1>3 DEF DInv, Histories
  <2>2. ASSUME NEW r \in Peer, NEW s \in Stream PROVE sent'[r][s] <= Len(Outbox[r][s])
    <3>1. CASE r = p /\ s = NORMAL
      <4>1. sent'[r][s] = sent[p][NORMAL] + 1
        BY <1>1, <1>2, <3>1 DEF DInv, Histories
      <4> QED BY <1>1, <1>3, <3>1, <4>1
    <3>2. CASE ~(r = p /\ s = NORMAL)
      <4>1. sent'[r][s] = sent[r][s]
        BY <1>1, <1>2, <3>2 DEF DInv, Histories
      <4> QED BY <4>1 DEF DInv, Histories
    <3> QED BY <3>1, <3>2
  <2> QED BY <1>1, <2>1, <2>2 DEF DInv, Histories
<1> QED BY <1>5, <1>6, <1>7 DEF DInv

\* A file becomes an item of its own behind the others.
LEMMA SendFileDInv ==
  ASSUME DInv, NEW p \in Peer, SendFile(p) PROVE DInv'
<1> DEFINE m == Outbox[p][FILE][sent[p][FILE] + 1]
           item == NewItem(<<m>>, Bytes[m], m \in Files)
           list == waitingList[p][FILE]
           lists == waitingList[p]
<1>1. /\ waitingList' = [waitingList EXCEPT ![p][FILE] = Append(list, item)]
      /\ sent' = [sent EXCEPT ![p][FILE] = @ + 1]
      /\ sent[p][FILE] < Len(Outbox[p][FILE])
      /\ UNCHANGED <<sub, streamReliable, receiveList, net, delivered, clears, chokes, torn>>
  BY DEF SendFile, headerVars
<1>2. FILE \in Stream
  BY DEF Stream
<1>3. sent[p][FILE] \in Nat /\ Outbox[p][FILE] \in Seq(Msg)
  BY <1>2, MessageAssumption DEF DInv, Histories
<1>4. m \in Msg
  BY <1>1, <1>3
<1>5. Loaded(sub[p], lists) /\ DOMAIN waitingList = Peer
  BY DEF DInv, Sending
<1>6. Waiting(list) /\ Carry(sub[p], FILE, list)
  BY <1>2, <1>5 DEF Loaded
<1>7. item \in Item /\ item.acked = 0 /\ item.pending = 0
  <2>1. <<m>> \in Seq(Msg) \ {<<>>} /\ Bytes[m] \in Nat \ {0} /\ (m \in Files) \in BOOLEAN
    BY <1>4, MessageAssumption
  <2> QED BY <2>1, NewItemFields
<1> HIDE DEF m, item
<1> DEFINE list2 == Append(list, item)
<1>8. /\ Waiting(list2) /\ list2 # <<>>
      /\ list = <<>> => list2[1] = item
      /\ list # <<>> => list2[1] = list[1]
  <2> HIDE DEF list
  <2> QED BY <1>6, <1>7, ItemAppended
<1>9. waitingList' = [waitingList EXCEPT ![p] = [lists EXCEPT ![FILE] = list2]]
  BY <1>1
<1> HIDE DEF list2
<1>10. Carry(sub[p], FILE, list2)
  <2>1. CASE list = <<>>
    <3>1. CarryHead(sub[p], FILE, item)
      BY <1>2, <1>6, <1>7, <2>1, NewHeadCarried DEF Carry
    <3> QED BY <1>8, <2>1, <3>1 DEF Carry
  <2>2. CASE list # <<>>
    BY <1>6, <1>8, <2>2 DEF Carry
  <2> QED BY <2>1, <2>2
<1> DEFINE lists2 == [lists EXCEPT ![FILE] = list2]
<1>11. Loaded(sub[p], lists2)
  BY <1>2, <1>5, <1>8, <1>10 DEF Loaded
<1> HIDE DEF lists, lists2
<1>12. Sending'
  <2>1. waitingList' = [waitingList EXCEPT ![p] = lists2]
    BY <1>9 DEF lists2
  <2>2. /\ DOMAIN waitingList' = Peer /\ waitingList'[p] = lists2
        /\ \A r \in Peer : r # p => waitingList'[r] = waitingList[r]
    BY <1>5, <2>1
  <2>3. \A r \in Peer : Loaded(sub[r], waitingList'[r])
    BY <1>11, <2>2 DEF DInv, Sending
  <2> QED BY <1>1, <2>2, <2>3 DEF DInv, Sending
<1>13. Receiving'
  BY <1>1, ReceivingSame DEF DInv
<1>14. Histories'
  <2>1. sent' \in [Peer -> [Stream -> Nat]]
    BY <1>1, <1>2, <1>3 DEF DInv, Histories
  <2>2. ASSUME NEW r \in Peer, NEW s \in Stream PROVE sent'[r][s] <= Len(Outbox[r][s])
    <3>1. CASE r = p /\ s = FILE
      <4>1. sent'[r][s] = sent[p][FILE] + 1
        BY <1>1, <1>2, <3>1 DEF DInv, Histories
      <4> QED BY <1>1, <1>3, <3>1, <4>1
    <3>2. CASE ~(r = p /\ s = FILE)
      <4>1. sent'[r][s] = sent[r][s]
        BY <1>1, <1>2, <3>2 DEF DInv, Histories
      <4> QED BY <4>1 DEF DInv, Histories
    <3> QED BY <3>1, <3>2
  <2> QED BY <1>1, <2>1, <2>2 DEF DInv, Histories
<1> QED BY <1>12, <1>13, <1>14 DEF DInv

\* A choked tick.
LEMMA SetChokedDInv ==
  ASSUME DInv, NEW p \in Peer, SetChoked(p) PROVE DInv'
<1>1. /\ UNCHANGED <<sub, streamReliable, waitingList, receiveList, net, sent, delivered, clears, torn>>
      /\ chokes < MaxChokes /\ chokes' = chokes + 1
  BY DEF SetChoked, dataVars
<1>2. chokes' \in 0 .. MaxChokes
  BY <1>1, BoundAssumption DEF DInv, Histories
<1> QED BY <1>1, <1>2, SendingSame, ReceivingSame DEF DInv, Histories

\* Clear.
LEMMA ClearDInv ==
  ASSUME IInv, DInv, NEW p \in Peer, Clear(p) PROVE DInv'
<1>1. /\ clears' = [clears EXCEPT ![p] = @ + 1]
      /\ sub' = [sub EXCEPT ![p] = ClearedSub(sub[p])]
      /\ waitingList' = [waitingList EXCEPT ![p] = [s \in Stream |-> <<>>]]
      /\ receiveList' = [receiveList EXCEPT ![p] = [s \in Stream |-> NoBuffer]]
      /\ streamReliable' = [streamReliable EXCEPT ![p] = <<>>]
      /\ UNCHANGED <<net, sent, delivered, chokes, torn>>
  BY DEF Clear
<1>2. DOMAIN sub = Peer /\ WellFormed(sub[p])
  BY DEF IInv, HeaderTypeOK
<1> DEFINE lists2 == [s \in Stream |-> <<>>]
<1>3. Loaded(ClearedSub(sub[p]), lists2)
  <2>1. /\ Fragmented(ClearedSub(sub[p]))
        /\ \A s \in Stream : Flight(ClearedSub(sub[p]), s) = {}
    BY <1>2, ClearedFlight DEF DInv, Sending, Loaded
  <2>2. Waiting(<<>>)
    BY DEF Waiting
  <2> QED BY <2>1, <2>2 DEF Loaded, Carry
<1> HIDE DEF lists2
<1>4. Sending'
  <2>1. /\ sub'[p] = ClearedSub(sub[p]) /\ waitingList'[p] = lists2
        /\ DOMAIN waitingList' = Peer
        /\ \A r \in Peer : r # p => sub'[r] = sub[r] /\ waitingList'[r] = waitingList[r]
    BY <1>1, <1>2 DEF DInv, Sending, lists2
  <2>2. streamReliable' \in [Peer -> Seq(Msg)]
    BY <1>1 DEF DInv, Sending
  <2>3. \A r \in Peer : Loaded(sub'[r], waitingList'[r])
    BY <1>3, <2>1 DEF DInv, Sending
  <2> QED BY <2>1, <2>2, <2>3 DEF Sending
<1>5. Receiving'
  BY <1>1 DEF DInv, Receiving, Buffers
<1>6. Histories'
  BY <1>1 DEF DInv, Histories
<1> QED BY <1>4, <1>5, <1>6 DEF DInv

\* Flushing and compressing keep what the subchannels carry.
LEMMA FlushedCarries ==
  ASSUME NEW subs, NEW lists0, Loaded(subs, lists0), NEW msgs \in Seq(Msg),
         NEW flushed, flushed = [lists0 EXCEPT ![NORMAL] = CreateFragments(lists0[NORMAL], msgs)],
         NEW lists \in CompressedLists(flushed)
  PROVE  /\ Loaded(subs, flushed) /\ Loaded(subs, lists)
         /\ \A s \in Stream : lists[s] \in CompressFragments(flushed[s])
<1>1. NORMAL \in Stream
  BY DEF Stream
<1>2. DOMAIN flushed = Stream
  BY DEF Loaded
<1>3. ASSUME NEW s \in Stream
      PROVE  Waiting(flushed[s]) /\ Carry(subs, s, flushed[s])
  <2> DEFINE list == lists0[s]
  <2>1. Waiting(list) /\ Carry(subs, s, list)
    BY DEF Loaded
  <2>2. CASE s = NORMAL
    <3>1. flushed[s] = CreateFragments(list, msgs)
      BY <1>1, <2>2 DEF Loaded
    <3> HIDE DEF list
    <3> QED BY <2>1, <3>1, FragmentsCreated, CreatedCarried
  <2>3. CASE s # NORMAL
    <3>1. flushed[s] = list
      BY <2>3 DEF Loaded
    <3> HIDE DEF list
    <3> QED BY <2>1, <3>1
  <2> QED BY <2>2, <2>3
<1>4. DOMAIN lists = Stream /\ \A s \in Stream : lists[s] \in CompressFragments(flushed[s])
  BY DEF CompressedLists
<1>5. Fragmented(subs)
  BY DEF Loaded
<1>6. ASSUME NEW s \in Stream
      PROVE  Waiting(lists[s]) /\ Carry(subs, s, lists[s])
  <2>1. Waiting(flushed[s]) /\ Carry(subs, s, flushed[s]) /\ lists[s] \in CompressFragments(flushed[s])
    BY <1>3, <1>4
  <2> QED BY <1>5, <2>1, FragmentsCompressed, CompressedCarried
<1> QED BY <1>2, <1>3, <1>4, <1>5, <1>6 DEF Loaded

\* SendDatagram as a whole: the lists on the way to the datagram.
LEMMA SendDatagramData ==
  ASSUME IInv, DInv, NEW p \in Peer, SendDatagram(p)
  PROVE  \E lists, take :
           LET flushed == [waitingList[p] EXCEPT ![NORMAL] =
                             CreateFragments(waitingList[p][NORMAL], streamReliable[p])]
               subs == UpdatedSub(p, lists, take)
               updated == UpdatedWaiting(p, lists, take)
           IN  /\ \A s \in Stream : Waiting(flushed[s]) /\ lists[s] \in CompressFragments(flushed[s])
               /\ take \in [Stream -> 0 .. MaxFragments]
               /\ \A s \in Stream : take[s] <= Unsent(lists[s])
               /\ Loaded(sub[p], flushed) /\ Loaded(sub[p], lists)
               /\ Loaded(subs, updated) /\ WellFormed(subs)
               /\ Loaded(TransmittedSub(p, subs), updated)
               /\ sub' = [sub EXCEPT ![p] = TransmittedSub(p, subs)]
               /\ outRel' = [outRel EXCEPT ![p] = UpdatedOutRel(p, take)]
               /\ waitingList' = [waitingList EXCEPT ![p] = updated]
               /\ streamReliable' = [streamReliable EXCEPT ![p] = <<>>]
               /\ net' = [net EXCEPT ![Other(p)] =
                             Travelling(net[Other(p)] \cup {Packet(p, subs, updated)}, outSeq[p])]
               /\ UNCHANGED <<inSeq, inRel, receiveList, historyVars>>
<1> DEFINE lists0 == waitingList[p]
           flushed == [lists0 EXCEPT ![NORMAL] = CreateFragments(lists0[NORMAL], streamReliable[p])]
<1>1. PICK lists \in CompressedLists(flushed), background \in BackgroundModes :
        LET take == TakeFragments(lists, background)
            subs == UpdatedSub(p, lists, take)
            updated == UpdatedWaiting(p, lists, take)
        IN  /\ sub' = [sub EXCEPT ![p] = TransmittedSub(p, subs)]
            /\ outRel' = [outRel EXCEPT ![p] = UpdatedOutRel(p, take)]
            /\ waitingList' = [waitingList EXCEPT ![p] = updated]
            /\ net' = [net EXCEPT ![Other(p)] =
                         Travelling(net[Other(p)] \cup {Packet(p, subs, updated)}, outSeq[p])]
  BY DEF SendDatagram
<1>2. /\ streamReliable' = [streamReliable EXCEPT ![p] = <<>>]
      /\ UNCHANGED <<inSeq, inRel, receiveList, historyVars>>
  BY DEF SendDatagram
<1> DEFINE take == TakeFragments(lists, background)
           subs == UpdatedSub(p, lists, take)
           updated == UpdatedWaiting(p, lists, take)
<1>3. /\ Loaded(sub[p], lists0) /\ streamReliable[p] \in Seq(Msg)
      /\ WellFormed(sub[p]) /\ outRel[p] \in [SubChannel -> Bit] /\ outSeq[p] \in Nat
  BY DEF DInv, Sending, IInv, HeaderTypeOK
<1>4. /\ Loaded(sub[p], flushed) /\ Loaded(sub[p], lists)
      /\ \A s \in Stream : lists[s] \in CompressFragments(flushed[s])
  <2> DEFINE fl == flushed
  <2>1. fl = [lists0 EXCEPT ![NORMAL] = CreateFragments(lists0[NORMAL], streamReliable[p])]
        /\ lists \in CompressedLists(fl)
    OBVIOUS
  <2> HIDE DEF fl, lists0
  <2>2. /\ Loaded(sub[p], fl) /\ Loaded(sub[p], lists)
        /\ \A s \in Stream : lists[s] \in CompressFragments(fl[s])
    BY <1>3, <2>1, FlushedCarries
  <2> QED BY <2>2 DEF fl
<1> HIDE DEF flushed, lists0
<1>5. /\ take \in [Stream -> 0 .. MaxFragments]
      /\ \A s \in Stream : take[s] <= Unsent(lists[s])
  <2>1. \A s \in Stream : Unsent(lists[s]) \in Nat
    BY <1>4, UnsentLeft DEF Loaded
  <2> QED BY <2>1, TakenFragments
<1> HIDE DEF take
<1>6. Loaded(subs, updated)
  BY <1>3, <1>4, <1>5, UpdatedFlight DEF Loaded
<1>7. WellFormed(subs)
  BY <1>3, UpdatedValues
<1> HIDE DEF subs, updated
<1>8. Loaded(TransmittedSub(p, subs), updated)
  BY <1>3, <1>6, <1>7, TransmittedFlight DEF Loaded
<1>9. \A s \in Stream : Waiting(flushed[s]) /\ lists[s] \in CompressFragments(flushed[s])
  BY <1>4 DEF Loaded
<1> QED
  BY <1>1, <1>2, <1>4, <1>5, <1>6, <1>7, <1>8, <1>9 DEF take, subs, updated, flushed, lists0

\* SendDatagram preserves the invariant.
LEMMA SendDatagramDInv ==
  ASSUME IInv, DInv, NEW p \in Peer, SendDatagram(p)
  PROVE  DInv'
<1>1. PICK lists, take :
           LET flushed == [waitingList[p] EXCEPT ![NORMAL] =
                             CreateFragments(waitingList[p][NORMAL], streamReliable[p])]
               subs == UpdatedSub(p, lists, take)
               updated == UpdatedWaiting(p, lists, take)
           IN  /\ \A s \in Stream : Waiting(flushed[s]) /\ lists[s] \in CompressFragments(flushed[s])
               /\ take \in [Stream -> 0 .. MaxFragments]
               /\ \A s \in Stream : take[s] <= Unsent(lists[s])
               /\ Loaded(sub[p], flushed) /\ Loaded(sub[p], lists)
               /\ Loaded(subs, updated) /\ WellFormed(subs)
               /\ Loaded(TransmittedSub(p, subs), updated)
               /\ sub' = [sub EXCEPT ![p] = TransmittedSub(p, subs)]
               /\ outRel' = [outRel EXCEPT ![p] = UpdatedOutRel(p, take)]
               /\ waitingList' = [waitingList EXCEPT ![p] = updated]
               /\ streamReliable' = [streamReliable EXCEPT ![p] = <<>>]
               /\ net' = [net EXCEPT ![Other(p)] =
                             Travelling(net[Other(p)] \cup {Packet(p, subs, updated)}, outSeq[p])]
               /\ UNCHANGED <<inSeq, inRel, receiveList, historyVars>>
  BY SendDatagramData
<1> DEFINE subs == UpdatedSub(p, lists, take)
           updated == UpdatedWaiting(p, lists, take)
           pkt == Packet(p, subs, updated)
<1>2. /\ Loaded(subs, updated) /\ Loaded(TransmittedSub(p, subs), updated)
      /\ sub' = [sub EXCEPT ![p] = TransmittedSub(p, subs)]
      /\ waitingList' = [waitingList EXCEPT ![p] = updated]
      /\ streamReliable' = [streamReliable EXCEPT ![p] = <<>>]
      /\ net' = [net EXCEPT ![Other(p)] = Travelling(net[Other(p)] \cup {pkt}, outSeq[p])]
      /\ UNCHANGED <<receiveList, historyVars>>
  BY <1>1
<1>3. Pieces(pkt)
  <2>1. pkt.data = ReliableData(subs, updated)
    BY DEF Packet
  <2> HIDE DEF subs, updated, pkt
  <2> SUFFICES ASSUME NEW s \in Stream PROVE pkt.data[s] = NoData \/ Piece(pkt.data[s])
    BY DEF Pieces
  <2>2. CASE InState(subs, "TOSEND") = {}
    BY <2>1, <2>2 DEF ReliableData
  <2>3. CASE InState(subs, "TOSEND") # {}
    <3> DEFINE c == First(InState(subs, "TOSEND"))
    <3>1. c \in SubChannel /\ subs[c].state = "TOSEND"
      BY <2>3, FirstInState
    <3>2. pkt.data[s] = StreamData(subs[c], updated[s], s)
      BY <2>1, <2>3 DEF ReliableData
    <3> HIDE DEF c
    <3>3. Fragmented(subs) /\ Waiting(updated[s]) /\ Carry(subs, s, updated[s])
      BY <1>2 DEF Loaded
    <3> QED BY <3>1, <3>2, <3>3, PieceWritten
  <2> QED BY <2>2, <2>3
<1> HIDE DEF subs, updated, pkt
<1>4. DOMAIN sub = Peer /\ DOMAIN net = Peer /\ Other(p) \in Peer
  BY OtherOther DEF IInv, HeaderTypeOK
<1>5. Sending'
  <2>1. /\ sub'[p] = TransmittedSub(p, subs) /\ waitingList'[p] = updated
        /\ DOMAIN waitingList' = Peer
        /\ \A r \in Peer : r # p => sub'[r] = sub[r] /\ waitingList'[r] = waitingList[r]
    BY <1>2, <1>4 DEF DInv, Sending
  <2>2. streamReliable' \in [Peer -> Seq(Msg)]
    BY <1>2 DEF DInv, Sending
  <2>3. \A r \in Peer : Loaded(sub'[r], waitingList'[r])
    BY <1>2, <2>1 DEF DInv, Sending
  <2> QED BY <2>1, <2>2, <2>3 DEF Sending
<1>6. Receiving'
  <2>1. /\ net'[Other(p)] \subseteq net[Other(p)] \cup {pkt}
        /\ \A r \in Peer : r # Other(p) => net'[r] = net[r]
    BY <1>2, <1>4 DEF Travelling
  <2>2. \A r \in Peer : \A q \in net'[r] : Pieces(q)
    BY <1>3, <2>1 DEF DInv, Receiving
  <2>3. \A r \in Peer : \A q \in net'[r] : Pieces(q)'
    BY <2>2 DEF Pieces, NoData, Piece
  <2> QED BY <1>2, <2>3 DEF DInv, Receiving
<1>7. Histories'
  BY <1>2, HistoriesSame DEF DInv, historyVars
<1> QED BY <1>5, <1>6, <1>7 DEF DInv

\* What the handlers see of an allocated buffer.
LEMMA HandledMessages ==
  ASSUME NEW r, Allocated(r)
  PROVE  Handled(r) \in Seq(Msg \cup {Garbled})
<1>1. r.item \in Seq(Msg)
  BY DEF Allocated
<1>2. r.item \in Seq(Msg \cup {Garbled}) /\ <<Garbled>> \in Seq(Msg \cup {Garbled})
  BY <1>1
<1>3. ASSUME Stoppers(r) # {}
      PROVE  SubSeq(r.item, 1, First(Stoppers(r))) \in Seq(Msg \cup {Garbled})
  <2>1. Stoppers(r) \in SUBSET Nat /\ Stoppers(r) \subseteq 1 .. Len(r.item)
    BY <1>1 DEF Stoppers
  <2>2. First(Stoppers(r)) \in 1 .. Len(r.item)
    BY <1>3, <2>1, FirstIsLeast
  <2> DEFINE k == First(Stoppers(r))
  <2> HIDE DEF k
  <2>3. k \in 1 .. Len(r.item)
    BY <2>2 DEF k
  <2>4. SubSeq(r.item, 1, k) \in Seq(Msg \cup {Garbled})
    BY <1>2, <2>3
  <2> QED BY <2>4 DEF k
<1>4. CASE ~Intact(r)
  BY <1>2, <1>4 DEF Handled
<1>5. CASE Intact(r) /\ (r.file \/ Stoppers(r) = {})
  BY <1>2, <1>5 DEF Handled
<1>6. CASE Intact(r) /\ ~(r.file \/ Stoppers(r) = {})
  BY <1>3, <1>6 DEF Handled
<1> QED BY <1>4, <1>5, <1>6

\* What ProcessPacket does beyond the header variables: taken is that the bit is
\* flipped, lists are the buffers after the read loop, outcomes what the handlers
\* of each stream returned, cleared that one of them called Clear.
PacketEffect(p, q, taken, lists, outcomes, cleared) ==
  /\ taken = (q.sub # NoSub /\ ReadsAll(p, q))
  /\ lists = IF q.sub # NoSub THEN ReadLists(p, q) ELSE receiveList[p]
  /\ \A s \in Stream : outcomes[s] \in Results(taken, lists[s])
  /\ cleared = (taken /\ Clears(lists, outcomes))
  /\ sub' = [sub EXCEPT ![p] = IF cleared THEN ClearedSub(HeaderSub(p, q)) ELSE HeaderSub(p, q)]
  /\ outRel' = [outRel EXCEPT ![p] =
                  IF cleared THEN ClearedOutRel(HeaderSub(p, q), HeaderOutRel(p, q))
                  ELSE HeaderOutRel(p, q)]
  /\ waitingList' = [waitingList EXCEPT ![p] = IF cleared THEN [s \in Stream |-> <<>>]
                                               ELSE HeaderWaiting(p, q)]
  /\ streamReliable' = [streamReliable EXCEPT ![p] = IF cleared THEN <<>> ELSE streamReliable[p]]
  /\ receiveList' = [receiveList EXCEPT ![p] = IF taken THEN CheckedLists(lists, outcomes) ELSE lists]
  /\ delivered' = [delivered EXCEPT ![p] =
                     [s \in Stream |-> IF taken /\ Processes(lists, outcomes, s)
                                       THEN delivered[p][s] \o Handled(lists[s])
                                       ELSE delivered[p][s]]]
  /\ inRel' = [inRel EXCEPT ![p] = IF taken THEN Flipped(inRel[p], q.sub) ELSE inRel[p]]
  /\ inSeq' = [inSeq EXCEPT ![p] = q.seq]
  /\ net' = [net EXCEPT ![p] = Duplicable(net[p], q)]
  /\ torn' = IF ~taken /\ lists # receiveList[p] THEN torn \cup {p} ELSE torn
  /\ UNCHANGED <<outSeq, sent, clears, chokes>>

\* ProcessPacket with a valid header does just that.
LEMMA ProcessPacketData ==
  ASSUME NEW p \in Peer, NEW q, ValidHeader(p, q), ProcessPacket(p, q)
  PROVE  \E taken, lists, outcomes, cleared : PacketEffect(p, q, taken, lists, outcomes, cleared)
<1> DEFINE reliable == ValidHeader(p, q) /\ q.sub # NoSub
           taken == reliable /\ ReadsAll(p, q)
           lists == IF reliable THEN ReadLists(p, q) ELSE receiveList[p]
           outcomes(normal, file) == [s \in Stream |-> IF s = NORMAL THEN normal ELSE file]
           cleared(normal, file) == taken /\ Clears(lists, outcomes(normal, file))
<1>1. PICK normal \in Results(taken, lists[NORMAL]), file \in Results(taken, lists[FILE]) :
        /\ sub' = [sub EXCEPT ![p] = IF cleared(normal, file) THEN ClearedSub(HeaderSub(p, q))
                                     ELSE HeaderSub(p, q)]
        /\ outRel' = [outRel EXCEPT ![p] =
                        IF cleared(normal, file)
                        THEN ClearedOutRel(HeaderSub(p, q), HeaderOutRel(p, q))
                        ELSE HeaderOutRel(p, q)]
        /\ waitingList' = [waitingList EXCEPT ![p] =
                             IF cleared(normal, file) THEN [s \in Stream |-> <<>>]
                             ELSE HeaderWaiting(p, q)]
        /\ streamReliable' = [streamReliable EXCEPT ![p] =
                                IF cleared(normal, file) THEN <<>> ELSE streamReliable[p]]
        /\ receiveList' = [receiveList EXCEPT ![p] =
                             IF taken THEN CheckedLists(lists, outcomes(normal, file)) ELSE lists]
        /\ delivered' = [delivered EXCEPT ![p] =
                           [s \in Stream |->
                              IF taken /\ Processes(lists, outcomes(normal, file), s)
                              THEN delivered[p][s] \o Handled(lists[s])
                              ELSE delivered[p][s]]]
  BY Zenon DEF ProcessPacket
<1>2. inRel' = [inRel EXCEPT ![p] = IF taken THEN Flipped(inRel[p], q.sub) ELSE inRel[p]]
  BY SMT DEF ProcessPacket
<1>3. /\ inSeq' = [inSeq EXCEPT ![p] = q.seq]
      /\ net' = [net EXCEPT ![p] = Duplicable(net[p], q)]
      /\ torn' = IF ~taken /\ lists # receiveList[p] THEN torn \cup {p} ELSE torn
      /\ UNCHANGED <<outSeq, sent, clears, chokes>>
  BY SMT DEF ProcessPacket
<1>4. /\ taken = (q.sub # NoSub /\ ReadsAll(p, q))
      /\ lists = IF q.sub # NoSub THEN ReadLists(p, q) ELSE receiveList[p]
  BY DEF ReadsAll
<1>5. normal \in Results(taken, lists[NORMAL]) /\ file \in Results(taken, lists[FILE])
  OBVIOUS
<1> HIDE DEF taken, lists
<1>6. \A s \in Stream : outcomes(normal, file)[s] \in Results(taken, lists[s])
  BY <1>5 DEF Stream, NORMAL, FILE
<1>7. cleared(normal, file) = (taken /\ Clears(lists, outcomes(normal, file)))
  OBVIOUS
<1> DEFINE out == outcomes(normal, file)
           clr == cleared(normal, file)
<1> HIDE DEF out, clr
<1>8. PacketEffect(p, q, taken, lists, out, clr)
  BY <1>1, <1>2, <1>3, <1>4, <1>6, <1>7, Zenon DEF PacketEffect, out, clr
<1> QED BY <1>8

\* ProcessPacket preserves the invariant.
LEMMA ProcessPacketDInv ==
  ASSUME IInv, DInv, NEW p \in Peer, NEW q \in net[p], ProcessPacket(p, q)
  PROVE  DInv'
<1>1. ValidHeader(p, q)
  <2>1. Fresh(p, q)
    BY DEF ProcessPacket
  <2> QED BY <2>1, FreshIsValid
<1>2. PICK taken, lists, outcomes, cleared : PacketEffect(p, q, taken, lists, outcomes, cleared)
  BY <1>1, ProcessPacketData
<1>3. /\ lists = IF q.sub # NoSub THEN ReadLists(p, q) ELSE receiveList[p]
      /\ net' = [net EXCEPT ![p] = Duplicable(net[p], q)]
      /\ torn' = IF ~taken /\ lists # receiveList[p] THEN torn \cup {p} ELSE torn
      /\ UNCHANGED <<sent, clears, chokes>>
      /\ sub' = [sub EXCEPT ![p] = IF cleared THEN ClearedSub(HeaderSub(p, q))
                                   ELSE HeaderSub(p, q)]
      /\ waitingList' = [waitingList EXCEPT ![p] = IF cleared THEN [s \in Stream |-> <<>>]
                                                   ELSE HeaderWaiting(p, q)]
      /\ streamReliable' = [streamReliable EXCEPT ![p] = IF cleared THEN <<>> ELSE streamReliable[p]]
      /\ receiveList' = [receiveList EXCEPT ![p] =
                           IF taken THEN CheckedLists(lists, outcomes) ELSE lists]
      /\ delivered' = [delivered EXCEPT ![p] =
                         [s \in Stream |-> IF taken /\ Processes(lists, outcomes, s)
                                           THEN delivered[p][s] \o Handled(lists[s])
                                           ELSE delivered[p][s]]]
  BY <1>2 DEF PacketEffect
<1>4. /\ DOMAIN sub = Peer /\ DOMAIN net = Peer /\ WellFormed(sub[p])
      /\ outRel[p] \in [SubChannel -> Bit] /\ Loaded(sub[p], waitingList[p])
      /\ Buffers(receiveList[p]) /\ Pieces(q)
  BY DEF IInv, HeaderTypeOK, DInv, Sending, Receiving
<1>5. Buffers(lists)
  <2>1. CASE q.sub = NoSub
    BY <1>3, <1>4, <2>1
  <2>2. CASE q.sub # NoSub
    <3>1. lists = ReadLists(p, q)
      BY <1>3, <2>2
    <3>2. DOMAIN lists = Stream
      BY <3>1 DEF ReadLists
    <3>3. ASSUME NEW s \in Stream PROVE lists[s] = NoBuffer \/ Allocated(lists[s])
      <4> DEFINE r == receiveList[p][s]
                 d == q.data[s]
      <4>1. r = NoBuffer \/ Allocated(r)
        BY <1>4 DEF Buffers
      <4>2. d = NoData \/ Piece(d)
        BY <1>4 DEF Pieces
      <4>3. lists[s] = r \/ (d # NoData /\ lists[s] = ReadData(r, d))
        BY <3>1 DEF ReadLists, Carries
      <4> HIDE DEF r, d
      <4> QED BY <4>1, <4>2, <4>3, BufferRead
    <3> QED BY <3>2, <3>3 DEF Buffers
  <2> QED BY <2>1, <2>2
<1>6. /\ sub'[p] = IF cleared THEN ClearedSub(HeaderSub(p, q)) ELSE HeaderSub(p, q)
      /\ waitingList'[p] = IF cleared THEN [s \in Stream |-> <<>>] ELSE HeaderWaiting(p, q)
      /\ DOMAIN waitingList' = Peer
      /\ \A r \in Peer : r # p => sub'[r] = sub[r] /\ waitingList'[r] = waitingList[r]
  BY <1>3, <1>4 DEF DInv, Sending
<1>7. Loaded(HeaderSub(p, q), HeaderWaiting(p, q)) /\ WellFormed(HeaderSub(p, q))
  <2>1. Fragmented(HeaderSub(p, q))
    <3>1. Fragmented(sub[p])
      BY <1>4 DEF Loaded
    <3> QED BY <1>1, <1>4, <3>1, HeaderFragments DEF Fragmented
  <2>2. ASSUME NEW s \in Stream
        PROVE  /\ Waiting(HeaderWaiting(p, q)[s])
               /\ Carry(HeaderSub(p, q), s, HeaderWaiting(p, q)[s])
    <3>1. /\ Waiting(waitingList[p][s]) /\ Carry(sub[p], s, waitingList[p][s])
          /\ Fragmented(sub[p])
      BY <1>4 DEF Loaded
    <3>2. PICK list2 :
             /\ Waiting(list2) /\ Carry(HeaderSub(p, q), s, list2)
             /\ HeaderWaiting(p, q)[s] = CheckWaitingList(list2, q.ack)
      BY <1>1, <1>4, <3>1, HeaderFlight
    <3> QED BY <2>1, <3>2, CheckedCarried
  <2>3. DOMAIN HeaderWaiting(p, q) = Stream
    BY DEF HeaderWaiting
  <2>4. WellFormed(HeaderSub(p, q))
    BY <1>1, <1>4, HeaderValues
  <2> QED BY <2>1, <2>2, <2>3, <2>4 DEF Loaded
<1>8. Sending'
  <2>1. Loaded(sub'[p], waitingList'[p])
    <3>1. CASE cleared
      <4>1. /\ Fragmented(ClearedSub(HeaderSub(p, q)))
            /\ \A s \in Stream : Flight(ClearedSub(HeaderSub(p, q)), s) = {}
        BY <1>7, ClearedFlight DEF Loaded
      <4>2. Waiting(<<>>)
        BY DEF Waiting
      <4>3. sub'[p] = ClearedSub(HeaderSub(p, q)) /\ waitingList'[p] = [s \in Stream |-> <<>>]
        BY <1>6, <3>1
      <4> QED BY <4>1, <4>2, <4>3 DEF Loaded, Carry
    <3>2. CASE ~cleared
      BY <1>6, <1>7, <3>2
    <3> QED BY <3>1, <3>2
  <2>2. \A r \in Peer : Loaded(sub'[r], waitingList'[r])
    BY <1>6, <2>1 DEF DInv, Sending
  <2>3. streamReliable' \in [Peer -> Seq(Msg)]
    <3>1. streamReliable' = [streamReliable EXCEPT ![p] = IF cleared THEN <<>> ELSE streamReliable[p]]
      BY <1>3
    <3> QED BY <3>1 DEF DInv, Sending
  <2> QED BY <1>6, <2>2, <2>3 DEF Sending
<1>9. Receiving'
  <2>1. receiveList' = [receiveList EXCEPT ![p] =
                          IF taken THEN CheckedLists(lists, outcomes) ELSE lists]
    BY <1>3
  <2>2. Buffers(CheckedLists(lists, outcomes))
    BY <1>5 DEF Buffers, CheckedLists
  <2>3. /\ DOMAIN receiveList' = Peer
        /\ receiveList'[p] = IF taken THEN CheckedLists(lists, outcomes) ELSE lists
        /\ \A r \in Peer : r # p => receiveList'[r] = receiveList[r]
    BY <2>1 DEF DInv, Receiving
  <2>4. \A r \in Peer : Buffers(receiveList'[r])
    BY <1>5, <2>2, <2>3 DEF DInv, Receiving
  <2>5. \A r \in Peer : net'[r] \subseteq net[r]
    BY <1>3, <1>4 DEF Duplicable
  <2>6. \A r \in Peer : \A d \in net'[r] : Pieces(d)
    BY <2>5 DEF DInv, Receiving
  <2> QED BY <2>3, <2>4, <2>6 DEF Receiving
<1>10. Histories'
  <2> DEFINE new == [s \in Stream |-> IF taken /\ Processes(lists, outcomes, s)
                                      THEN delivered[p][s] \o Handled(lists[s])
                                      ELSE delivered[p][s]]
             M == Msg \cup {Garbled}
  <2>1. delivered' = [delivered EXCEPT ![p] = new]
    BY <1>3
  <2>2. \A s \in Stream : delivered[p][s] \in Seq(M)
    BY DEF DInv, Histories
  <2>3. ASSUME NEW s \in Stream, Processes(lists, outcomes, s)
        PROVE  delivered[p][s] \o Handled(lists[s]) \in Seq(M)
    <3>1. Allocated(lists[s])
      BY <1>5, <2>3 DEF Buffers, Processes, Complete
    <3>2. Handled(lists[s]) \in Seq(M)
      BY <3>1, HandledMessages
    <3> QED BY <2>2, <3>2
  <2> HIDE DEF M
  <2>4. new \in [Stream -> Seq(M)]
    BY <2>2, <2>3
  <2> HIDE DEF new
  <2>5. delivered' \in [Peer -> [Stream -> Seq(M)]]
    BY <2>1, <2>4 DEF DInv, Histories, M
  <2>6. torn' \subseteq Peer
    BY <1>3 DEF DInv, Histories
  <2> QED BY <1>3, <2>5, <2>6 DEF DInv, Histories, M
<1> QED BY <1>8, <1>9, <1>10 DEF DInv

\* Every step does.
LEMMA NextDInv == IInv /\ DInv /\ [Next]_vars => DInv'
<1> SUFFICES ASSUME IInv, DInv, [Next]_vars PROVE DInv'
  OBVIOUS
<1>1. CASE UNCHANGED vars
  BY <1>1, SendingSame, ReceivingSame, HistoriesSame
    DEF DInv, vars, headerVars, dataVars, historyVars
<1>2. ASSUME NEW p \in Peer, SendNetMsg(p) PROVE DInv'
  BY <1>2, SendNetMsgDInv
<1>3. ASSUME NEW p \in Peer, SendFile(p) PROVE DInv'
  BY <1>3, SendFileDInv
<1>4. ASSUME NEW p \in Peer, SetChoked(p) PROVE DInv'
  BY <1>4, SetChokedDInv
<1>5. ASSUME NEW p \in Peer, SendDatagram(p) PROVE DInv'
  BY <1>5, SendDatagramDInv
<1>6. ASSUME NEW p \in Peer, Clear(p) PROVE DInv'
  BY <1>6, ClearDInv
<1>7. ASSUME NEW p \in Peer, NEW q \in net[p], ProcessPacket(p, q) PROVE DInv'
  BY <1>7, ProcessPacketDInv
<1> QED
  BY <1>1, <1>2, <1>3, <1>4, <1>5, <1>6, <1>7 DEF Next

-----------------------------------------------------------------------------
(* The theorems *)

\* Every fragment pending is carried by one subchannel and was not acknowledged
\* before, and no subchannel outlives its item: m_WaitingList[j][0], which
\* SendSubChannelData reads without a check, exists. For every number of
\* subchannels, messages and sizes, any network and any number of Clears.
THEOREM FragmentsCarried == Spec => []PendingIsInFlight
<1>1. DInv => PendingIsInFlight
  <2> SUFFICES ASSUME DInv, NEW p \in Peer, NEW s \in Stream
               PROVE  IF waitingList[p][s] = <<>> THEN InFlight(p, s) = {}
                      ELSE LET head == waitingList[p][s][1]
                               flight == InFlight(p, s)
                           IN  /\ head.pending = SumFunctionOnSet(Numbers(p, s), flight)
                               /\ SentFragments(head) <= NumFragments(head.bytes)
                               /\ \A c \in flight :
                                    FragmentRange(p, c, s) \subseteq 0 .. SentFragments(head) - 1
                               /\ \A c, d \in flight :
                                    c # d => FragmentRange(p, c, s) \cap FragmentRange(p, d, s) = {}
    BY DEF PendingIsInFlight
  <2> DEFINE head == waitingList[p][s][1]
  <2>1. /\ Waiting(waitingList[p][s]) /\ Carry(sub[p], s, waitingList[p][s])
        /\ Fragmented(sub[p])
    BY DEF DInv, Sending, Loaded
  <2>2. InFlight(p, s) = Flight(sub[p], s) /\ Numbers(p, s) = NumsOf(sub[p], s)
    BY DEF InFlight, Flight, Numbers, NumsOf
  <2>3. CASE waitingList[p][s] = <<>>
    BY <2>1, <2>2, <2>3 DEF Carry
  <2>4. CASE waitingList[p][s] # <<>>
    <3>1. head \in Item /\ CarryHead(sub[p], s, head)
      BY <2>1, <2>4 DEF Waiting, Carry
    <3> HIDE DEF head
    <3>2. SentFragments(head) \in Nat
      BY <3>1, ItemFields
    <3>3. \A c \in Flight(sub[p], s) : sub[p][c].num[s] \in Int /\ sub[p][c].start[s] \in Int
      BY <2>1 DEF Flight, Fragmented
    <3>4. \A c \in Flight(sub[p], s) : FragmentRange(p, c, s) \subseteq 0 .. SentFragments(head) - 1
      BY <3>1, <3>2, <3>3 DEF FragmentRange, CarryHead
    <3>5. \A c, d \in Flight(sub[p], s) :
            c # d => FragmentRange(p, c, s) \cap FragmentRange(p, d, s) = {}
      BY <3>1, <3>3 DEF FragmentRange, CarryHead
    <3>6. /\ head.pending = SumFunctionOnSet(NumsOf(sub[p], s), Flight(sub[p], s))
          /\ SentFragments(head) <= NumFragments(head.bytes)
      BY <3>1 DEF CarryHead
    <3> QED BY <2>2, <2>4, <3>4, <3>5, <3>6 DEF head
  <2> QED BY <2>3, <2>4
<1> QED
  BY InitIInv, NextIInv, InitDInv, NextDInv, <1>1, PTL DEF Spec

\* Every variable of the channel keeps its type: a fragment is never numbered
\* below zero or past its item, a buffer has room for the item it was opened for.
THEOREM ChannelTypeCorrect == Spec => []TypeOK
<1>1. IInv /\ DInv => TypeOK
  <2> SUFFICES ASSUME IInv, DInv PROVE TypeOK
    OBVIOUS
  <2>1. ASSUME NEW p \in Peer, NEW s \in Stream, NEW i \in DOMAIN waitingList[p][s]
        PROVE  LET item == waitingList[p][s][i]
               IN  /\ item.msgs \in Seq(Msg) \ {<<>>}
                   /\ item.bytes \in Nat \ {0}
                   /\ item.acked \in Nat /\ item.pending \in Nat
    <3>1. waitingList[p][s] \in Seq(Item)
      BY DEF DInv, Sending, Loaded, Waiting
    <3>2. waitingList[p][s][i] \in Item
      BY <3>1
    <3> QED BY <3>2 DEF Item
  <2>2. ASSUME NEW p \in Peer, NEW s \in Stream, receiveList[p][s] # NoBuffer
        PROVE  LET r == receiveList[p][s]
               IN  /\ r.acked \in Nat \ {0} /\ r.frags \in Nat \ {0}
                   /\ DOMAIN r.buf = 0 .. r.frags - 1
    BY <2>2 DEF DInv, Receiving, Buffers, Allocated
  <2>3. ASSUME NEW p \in Peer, NEW s \in Stream
        PROVE  /\ \A c \in SubChannel : sub[p][c].num[s] \in 0 .. MaxFragments
               /\ sent[p][s] \in 0 .. Len(Outbox[p][s])
               /\ delivered[p][s] \in Seq(Msg \cup {Garbled})
    <3>1. Fragmented(sub[p])
      BY DEF DInv, Sending, Loaded
    <3>2. Len(Outbox[p][s]) \in Nat
      BY MessageAssumption
    <3> QED BY <3>1, <3>2 DEF DInv, Histories, Fragmented
  <2>4. /\ streamReliable \in [Peer -> Seq(Msg)] /\ clears \in [Peer -> Nat]
        /\ chokes \in 0 .. MaxChokes /\ torn \subseteq Peer
    BY DEF DInv, Sending, Histories
  <2> QED BY <2>1, <2>2, <2>3, <2>4 DEF TypeOK, DataTypeOK, IInv
<1> QED
  BY InitIInv, NextIInv, InitDInv, NextDInv, <1>1, PTL DEF Spec

-----------------------------------------------------------------------------
(* What the other end has of the head of a waiting list *)

\* Subchannel record sb carries fragment i of stream s.
Covers(sb, s, i) == sb.start[s] <= i /\ i < sb.start[s] + sb.num[s]

\* What of a flight the other end, whose bits are in, has not taken.
Untaken(subs, out, in, s) == {c \in Flight(subs, s) : out[c] # in[c]}
Missing(subs, s, U) == SumFunctionOnSet(NumsOf(subs, s), U)

\* The other end has all of a head, none of it, or has stored fragment i.
Finished(head, U) == SentFragments(head) = NumFragments(head.bytes) /\ U = {}
Unopened(subs, s, U, head) ==
  /\ SentFragments(head) = Missing(subs, s, U)
  /\ \A i \in 0 .. SentFragments(head) - 1 : \E c \in U : Covers(subs[c], s, i)
Stored(subs, s, U, head, i) ==
  /\ i < SentFragments(head)
  /\ \A c \in U : ~Covers(subs[c], s, i)

\* The receive buffer of a head of which a part has come.
Collected(subs, s, U, head) ==
  [item |-> head.msgs, frags |-> NumFragments(head.bytes), file |-> head.file,
   acked |-> SentFragments(head) - Missing(subs, s, U),
   buf |-> [i \in 0 .. NumFragments(head.bytes) - 1 |->
              IF Stored(subs, s, U, head, i) THEN head.msgs ELSE Junk]]

\* The receive buffer r goes with the waiting list of the sender.
Follows(subs, s, U, list, r) ==
  IF list = <<>> \/ Finished(list[1], U) THEN r = NoBuffer
  ELSE IF r = NoBuffer THEN Unopened(subs, s, U, list[1])
  ELSE r = Collected(subs, s, U, list[1]) /\ Stored(subs, s, U, list[1], 0)


\* What is untaken is under way.
LEMMA UntakenPart ==
  ASSUME NEW subs, NEW s \in Stream, Fragmented(subs), NEW U \in SUBSET Flight(subs, s)
  PROVE  /\ U \in SUBSET SubChannel /\ IsFiniteSet(U)
         /\ \A c \in U : /\ subs[c].num[s] \in Nat \ {0} /\ subs[c].start[s] \in Int
                          /\ NumsOf(subs, s)[c] = subs[c].num[s]
         /\ Missing(subs, s, U) \in Nat
<1>1. /\ IsFiniteSet(Flight(subs, s)) /\ Flight(subs, s) \in SUBSET SubChannel
      /\ \A c \in SubChannel : NumsOf(subs, s)[c] \in Nat /\ NumsOf(subs, s)[c] = subs[c].num[s]
  BY FlightFinite
<1>2. IsFiniteSet(U)
  BY <1>1, FS_Subset
<1>3. \A c \in U : subs[c].num[s] > 0 /\ subs[c].start[s] \in Int
  BY <1>1 DEF Flight, Fragmented
<1>4. Missing(subs, s, U) \in Nat
  BY <1>1, <1>2, SumNat DEF Missing
<1> QED BY <1>1, <1>2, <1>3, <1>4

\* Fields of subchannels and heads on which Follows does not look may change.
LEMMA FollowsSame ==
  ASSUME NEW subs, NEW subs2, NEW s \in Stream, Fragmented(subs),
         NEW U \in SUBSET Flight(subs, s),
         \A c \in U : subs2[c].num = subs[c].num /\ subs2[c].start = subs[c].start,
         NEW list, NEW list2, NEW r, list = <<>> <=> list2 = <<>>,
         list # <<>> =>
           /\ SentFragments(list2[1]) = SentFragments(list[1]) /\ list2[1].bytes = list[1].bytes
           /\ list2[1].msgs = list[1].msgs /\ list2[1].file = list[1].file,
         Follows(subs, s, U, list, r)
  PROVE  Follows(subs2, s, U, list2, r)
<1>1. U \in SUBSET SubChannel /\ IsFiniteSet(U)
  BY UntakenPart
<1>2. \A c \in U : NumsOf(subs, s)[c] = NumsOf(subs2, s)[c]
  BY <1>1 DEF NumsOf
<1>3. Missing(subs2, s, U) = Missing(subs, s, U)
  BY ONLY <1>1, <1>2, SumAgree DEF Missing
<1>4. \A c \in U : \A i : Covers(subs2[c], s, i) <=> Covers(subs[c], s, i)
  BY DEF Covers
<1>5. CASE list = <<>>
  BY <1>5 DEF Follows
<1>6. CASE list # <<>>
  <2> DEFINE h == list[1]
             h2 == list2[1]
  <2>1. /\ SentFragments(h2) = SentFragments(h) /\ h2.bytes = h.bytes
        /\ h2.msgs = h.msgs /\ h2.file = h.file
    BY <1>6
  <2>2. \A i : Stored(subs2, s, U, h2, i) <=> Stored(subs, s, U, h, i)
    BY <1>4, <2>1 DEF Stored
  <2>3. Collected(subs2, s, U, h2) = Collected(subs, s, U, h)
    BY <1>3, <2>1, <2>2 DEF Collected
  <2>4. Unopened(subs2, s, U, h2) <=> Unopened(subs, s, U, h)
    BY <1>3, <1>4, <2>1 DEF Unopened
  <2>5. Finished(h2, U) <=> Finished(h, U)
    BY <2>1 DEF Finished
  <2> QED BY <1>6, <2>2, <2>3, <2>4, <2>5 DEF Follows
<1> QED BY <1>5, <1>6

\* The sum over a set of subchannels with one of them apart.
LEMMA MissingWithout ==
  ASSUME NEW subs, NEW s \in Stream, Fragmented(subs), NEW U \in SUBSET SubChannel, NEW c \in U
  PROVE  /\ Missing(subs, s, U) = subs[c].num[s] + Missing(subs, s, U \ {c})
         /\ Missing(subs, s, U) \in Nat /\ Missing(subs, s, U \ {c}) \in Nat
<1>1. /\ IsFiniteSet(SubChannel)
      /\ \A e \in SubChannel : NumsOf(subs, s)[e] \in Nat /\ NumsOf(subs, s)[e] = subs[e].num[s]
  BY FlightFinite
<1>2. IsFiniteSet(U) /\ IsFiniteSet(U \ {c})
  BY <1>1, FS_Subset
<1>3. Missing(subs, s, U) = NumsOf(subs, s)[c] + Missing(subs, s, U \ {c})
  <2>1. \A e \in U : NumsOf(subs, s)[e] \in Int
    BY <1>1
  <2> QED BY <1>2, <2>1, SumRemove DEF Missing
<1>4. Missing(subs, s, U) \in Nat /\ Missing(subs, s, U \ {c}) \in Nat
  BY <1>1, <1>2, SumNat DEF Missing
<1> QED BY <1>1, <1>3, <1>4

\* A subchannel takes the next fragments of a head: the other end misses more.
LEMMA FollowsGains ==
  ASSUME NEW subs, NEW subs2, NEW s \in Stream, Fragmented(subs), Fragmented(subs2),
         NEW U \in SUBSET SubChannel, NEW c0 \in SubChannel, c0 \notin U,
         \A c \in U : subs2[c].num = subs[c].num /\ subs2[c].start = subs[c].start,
         NEW list, Waiting(list), list # <<>>, NEW list2, Waiting(list2), list2 # <<>>,
         NEW k, k = subs2[c0].num[s], k > 0, subs2[c0].start[s] = SentFragments(list[1]),
         SentFragments(list[1]) + k <= NumFragments(list[1].bytes),
         SentFragments(list2[1]) = SentFragments(list[1]) + k,
         list2[1].bytes = list[1].bytes, list2[1].msgs = list[1].msgs,
         list2[1].file = list[1].file,
         NEW r, Follows(subs, s, U, list, r)
  PROVE  Follows(subs2, s, U \cup {c0}, list2, r)
<1> DEFINE h == list[1]
           h2 == list2[1]
           U2 == U \cup {c0}
           S == SentFragments(h)
<1>1. h \in Item /\ h2 \in Item
  BY DEF Waiting
<1>0. /\ SentFragments(h) = S /\ SentFragments(h2) = S + k /\ h2.bytes = h.bytes
      /\ h2.msgs = h.msgs /\ h2.file = h.file /\ subs2[c0].start[s] = S
      /\ S + k <= NumFragments(h.bytes)
      /\ U2 \in SUBSET SubChannel /\ c0 \in U2 /\ U2 \ {c0} = U
  OBVIOUS
<1> SUFFICES Follows(subs2, s, U2, list2, r)
  OBVIOUS
<1> HIDE DEF U2
<1>2. S \in Nat /\ NumFragments(h.bytes) \in Nat \ {0} /\ k \in Nat
  <2>1. k \in Nat
    BY DEF Fragmented
  <2> QED BY <1>1, <2>1, ItemFields
<1>3. Missing(subs2, s, U2) = Missing(subs, s, U) + k /\ Missing(subs, s, U) \in Nat
  <2>2. /\ Missing(subs2, s, U2) = subs2[c0].num[s] + Missing(subs2, s, U2 \ {c0})
        /\ Missing(subs2, s, U2 \ {c0}) \in Nat
    BY <1>0, MissingWithout
  <2>3. Missing(subs2, s, U) = Missing(subs, s, U)
    <3>1. IsFiniteSet(U)
      BY FlightFinite, FS_Subset
    <3>2. \A c \in U : NumsOf(subs2, s)[c] = NumsOf(subs, s)[c]
      BY DEF NumsOf
    <3> QED BY <3>1, <3>2, SumAgree DEF Missing
  <2>4. U2 \ {c0} = U
    BY <1>0
  <2>5. /\ Missing(subs2, s, U2) = k + Missing(subs, s, U)
        /\ Missing(subs, s, U) \in Nat
    BY ONLY <2>2, <2>3, <2>4, k = subs2[c0].num[s]
  <2> QED BY ONLY <1>2, <2>5
<1>4. \A c \in U : \A i : Covers(subs2[c], s, i) <=> Covers(subs[c], s, i)
  BY DEF Covers
<1>5. \A i \in Int : Covers(subs2[c0], s, i) <=> S <= i /\ i < S + k
  BY <1>0 DEF Covers
<1> HIDE DEF S, h, h2
<1>6. ~Finished(h, U) /\ ~Finished(h2, U2)
  BY <1>0, <1>2 DEF Finished
<1>7. CASE r = NoBuffer
  <2>1. Unopened(subs, s, U, h)
    BY <1>6, <1>7 DEF Follows, h
  <2>2. \A i \in 0 .. S + k - 1 : \E c \in U2 : Covers(subs2[c], s, i)
    <3>1. TAKE i \in 0 .. S + k - 1
    <3>2. CASE i < S
      <4>1. PICK c \in U : Covers(subs[c], s, i)
        BY <1>0, <1>2, <2>1, <3>2 DEF Unopened
      <4> QED BY <1>0, <1>4, <4>1
    <3>3. CASE ~(i < S)
      BY <1>0, <1>2, <1>5, <3>3
    <3> QED BY <3>2, <3>3
  <2>3. SentFragments(h2) = Missing(subs2, s, U2)
    BY <1>0, <1>3, <2>1 DEF Unopened
  <2>4. Unopened(subs2, s, U2, h2)
    <3>1. \A i \in 0 .. SentFragments(h2) - 1 : \E c \in U2 : Covers(subs2[c], s, i)
      <4>1. SentFragments(h2) = S + k
        BY <1>0
      <4>2. TAKE i \in 0 .. SentFragments(h2) - 1
      <4>3. i \in 0 .. S + k - 1
        BY ONLY <1>2, <4>1, <4>2
      <4> QED BY ONLY <2>2, <4>3
    <3> QED BY ONLY <2>3, <3>1, Zenon DEF Unopened
  <2> QED BY <1>6, <1>7, <2>4 DEF Follows, h2
<1>8. CASE r # NoBuffer
  <2>1. r = Collected(subs, s, U, h) /\ Stored(subs, s, U, h, 0)
    BY <1>6, <1>8 DEF Follows, h
  <2>2. \A i \in Int : Stored(subs2, s, U2, h2, i) <=> Stored(subs, s, U, h, i)
    <3>1. TAKE i \in Int
    <3>2. (\A c \in U2 : ~Covers(subs2[c], s, i))
            <=> (\A c \in U : ~Covers(subs[c], s, i)) /\ ~(S <= i /\ i < S + k)
      <4>1. \A c : c \in U2 <=> c \in U \/ c = c0
        BY <1>0
      <4> QED BY <1>4, <1>5, <4>1
    <3>3. i < S + k /\ ~(S <= i /\ i < S + k) <=> i < S
      BY <1>2
    <3> QED BY <1>0, <3>2, <3>3 DEF Stored
  <2>3. SentFragments(h2) - Missing(subs2, s, U2) = S - Missing(subs, s, U)
    BY <1>0, <1>2, <1>3
  <2>4. [i \in 0 .. NumFragments(h2.bytes) - 1 |->
             IF Stored(subs2, s, U2, h2, i) THEN h2.msgs ELSE Junk]
        = [i \in 0 .. NumFragments(h.bytes) - 1 |->
             IF Stored(subs, s, U, h, i) THEN h.msgs ELSE Junk]
    BY <1>0, <1>2, <2>2
  <2>5. Collected(subs2, s, U2, h2) = Collected(subs, s, U, h)
    BY <1>0, <2>3, <2>4 DEF Collected
  <2>6. Stored(subs2, s, U2, h2, 0)
    BY <2>1, <2>2
  <2> QED BY <1>6, <1>8, <2>1, <2>5, <2>6 DEF Follows, h2
<1> QED BY <1>7, <1>8

\* Fragment 0 opens a buffer.
LEMMA FragmentOpened ==
  ASSUME NEW d, Piece(d), d.start = 0, NEW r
  PROVE  ReadData(r, d) =
           [item |-> d.item, frags |-> d.frags, file |-> d.file, acked |-> 0 + d.num,
            buf |-> [i \in 0 .. d.frags - 1 |->
                       IF i \in d.start .. d.start + d.num - 1 THEN d.item ELSE Junk]]
<1> DEFINE o == Opened(r, d)
           junk == [i \in 0 .. d.frags - 1 |-> Junk]
           buf2 == [i \in 0 .. d.frags - 1 |->
                      IF i \in d.start .. d.start + d.num - 1 THEN d.item ELSE Junk]
           a2 == 0 + d.num
<1>1. o = [item |-> d.item, frags |-> d.frags, file |-> d.file, acked |-> 0, buf |-> junk]
  BY DEF Opened
<1>2. d.start + d.num <= d.frags /\ o.frags = d.frags /\ o # NoBuffer
  BY <1>1 DEF Piece, NoBuffer
<1>3. /\ o.buf = junk /\ o.acked = 0
      /\ [i \in DOMAIN o.buf |-> IF i \in d.start .. d.start + d.num - 1
                                 THEN d.item ELSE o.buf[i]] = buf2
  BY <1>1
<1>4. ReadData(r, d) = [o EXCEPT !.acked = a2, !.buf = buf2]
  BY <1>2, <1>3 DEF ReadData, CanRead
<1> HIDE DEF o, junk, buf2, a2
<1> DEFINE x == [o EXCEPT !.acked = a2]
           it == d.item
           n == d.frags
           f == d.file
<1>5. x = [item |-> it, frags |-> n, file |-> f, acked |-> a2, buf |-> junk]
  BY <1>1
<1> HIDE DEF x, it, n, f
<1>6. [x EXCEPT !.buf = buf2] = [item |-> it, frags |-> n, file |-> f, acked |-> a2, buf |-> buf2]
  BY ONLY <1>5
<1> QED BY <1>4, <1>6 DEF x, it, n, f, a2, buf2

\* What a datagram carries for a subchannel under way.
LEMMA CarriedPiece ==
  ASSUME NEW subs, Fragmented(subs), NEW s \in Stream, NEW list, Waiting(list),
         Carry(subs, s, list), NEW c \in Flight(subs, s)
  PROVE  LET h == list[1]
             d == StreamData(subs[c], list, s)
         IN  /\ list # <<>> /\ h \in Item /\ CarryHead(subs, s, h)
             /\ SentFragments(h) \in Nat /\ NumFragments(h.bytes) \in Nat \ {0}
             /\ SentFragments(h) <= NumFragments(h.bytes)
             /\ subs[c].num[s] \in Nat \ {0} /\ subs[c].start[s] \in Nat
             /\ subs[c].start[s] + subs[c].num[s] <= SentFragments(h)
             /\ d = [item |-> h.msgs, frags |-> NumFragments(h.bytes), file |-> h.file,
                     start |-> subs[c].start[s], num |-> subs[c].num[s]]
             /\ Piece(d)
<1> DEFINE h == list[1]
           n == subs[c].num[s]
           st == subs[c].start[s]
           N == NumFragments(h.bytes)
           S == SentFragments(h)
<1>1. list # <<>>
  BY DEF Carry
<1>2. h \in Item /\ CarryHead(subs, s, h)
  BY <1>1 DEF Waiting, Carry
<1>3. S \in Nat /\ N \in Nat \ {0}
  BY <1>2, ItemFields
<1>4. n \in Nat \ {0} /\ st \in Int
  BY DEF Flight, Fragmented
<1>5. S <= N /\ 0 <= st /\ st + n <= S
  BY <1>2 DEF CarryHead
<1>6. StreamData(subs[c], list, s) =
        [item |-> h.msgs, frags |-> N, file |-> h.file, start |-> st, num |-> n]
  BY <1>4 DEF StreamData
<1>7. h.msgs \in Seq(Msg) \ {<<>>} /\ h.file \in BOOLEAN
  BY <1>2 DEF Item
<1> HIDE DEF h, n, st, N, S
<1>8. Piece([item |-> h.msgs, frags |-> N, file |-> h.file, start |-> st, num |-> n])
  <2>1. st \in Nat /\ n \in Nat \ {0} /\ st + n <= N
    BY <1>3, <1>4, <1>5
  <2> QED BY <1>3, <1>7, <2>1 DEF Piece
<1>9. st \in Nat
  BY <1>4, <1>5
<1> QED BY <1>1, <1>2, <1>3, <1>4, <1>5, <1>6, <1>8, <1>9 DEF h, n, st, N, S

\* A buffer of which a part has come holds its item's pieces, and is complete
\* exactly when nothing of the item is missing.
LEMMA CollectedFacts ==
  ASSUME NEW subs, Fragmented(subs), NEW s \in Stream, NEW h \in Item,
         CarryHead(subs, s, h), NEW U \in SUBSET Flight(subs, s)
  PROVE  LET r == Collected(subs, s, U, h)
         IN  /\ r.item = h.msgs /\ r # NoBuffer
             /\ Complete(r) <=> Finished(h, U)
             /\ ~Overfull(r) /\ (Complete(r) => Intact(r))
             /\ \A i \in DOMAIN r.buf : r.buf[i] \in {Junk, r.item}
<1> DEFINE N == NumFragments(h.bytes)
           S == SentFragments(h)
           M == Missing(subs, s, U)
           r == Collected(subs, s, U, h)
<1>1. S \in Nat /\ N \in Nat \ {0} /\ S <= N /\ h.msgs # <<>>
  BY ItemFields DEF CarryHead, SentFragments, Item
<1>2. /\ U \in SUBSET SubChannel /\ M \in Nat
      /\ \A e \in U : subs[e].num[s] \in Nat \ {0}
  BY UntakenPart
<1> HIDE DEF N, S, M, r
<1>3. /\ r.item = h.msgs /\ r.frags = N /\ r.acked = S - M
      /\ r.buf = [i \in 0 .. N - 1 |-> IF Stored(subs, s, U, h, i) THEN h.msgs ELSE Junk]
  BY DEF Collected, r, N, S, M
<1>4. r # NoBuffer
  BY DEF Collected, NoBuffer, r
<1>5. Complete(r) <=> Finished(h, U)
  <2>1. Complete(r) <=> S - M = N
    BY <1>3, <1>4 DEF Complete
  <2>2. ASSUME S - M = N PROVE Finished(h, U)
    <3>1. S = N /\ M = 0
      BY <1>1, <1>2, <2>2
    <3>2. ASSUME NEW e \in U PROVE FALSE
      <4>1. /\ Missing(subs, s, U) = subs[e].num[s] + Missing(subs, s, U \ {e})
            /\ Missing(subs, s, U \ {e}) \in Nat
        <5>1. U \in SUBSET SubChannel /\ e \in U
          BY <1>2, <3>2
        <5> QED BY ONLY Fragmented(subs), s \in Stream, <5>1, MissingWithout
      <4>2. subs[e].num[s] \in Nat \ {0}
        BY <1>2
      <4> QED BY <3>1, <4>1, <4>2 DEF M
    <3> QED BY <3>1, <3>2 DEF Finished, S, N
  <2>3. ASSUME Finished(h, U) PROVE S - M = N
    <3>1. S = N /\ U = {}
      BY <2>3 DEF Finished, S, N
    <3>2. M = 0
      BY <3>1, SumNothing DEF Missing, M
    <3> QED BY <1>1, <3>1, <3>2
  <2> QED BY <2>1, <2>2, <2>3
<1>6. ~Overfull(r)
  BY <1>1, <1>2, <1>3 DEF Overfull
<1>7. ASSUME Complete(r) PROVE Intact(r)
  <2>1. U = {} /\ S = N
    BY <1>5, <1>7 DEF Finished, S, N
  <2>2. \A i \in 0 .. N - 1 : Stored(subs, s, U, h, i)
    BY <1>1, <2>1 DEF Stored, S
  <2> QED BY <1>3, <2>2 DEF Intact
<1>8. \A i \in DOMAIN r.buf : r.buf[i] \in {Junk, r.item}
  BY <1>3
<1> QED BY <1>3, <1>4, <1>5, <1>6, <1>7, <1>8 DEF r

\* The other end reads what a subchannel carries: its buffer has one piece more,
\* and is complete exactly when nothing of the item is missing any longer.
LEMMA FollowsTaken ==
  ASSUME NEW subs, Fragmented(subs), NEW s \in Stream, NEW list, Waiting(list),
         Carry(subs, s, list), NEW U \in SUBSET Flight(subs, s), NEW c \in U,
         NEW r, Follows(subs, s, U, list, r),
         CanRead(r, StreamData(subs[c], list, s))
  PROVE  LET r2 == ReadData(r, StreamData(subs[c], list, s))
             U2 == U \ {c}
         IN  /\ list # <<>>
             /\ r2 = Collected(subs, s, U2, list[1]) /\ Stored(subs, s, U2, list[1], 0)
             /\ Complete(r2) <=> Finished(list[1], U2)
             /\ ~Overfull(r2)
             /\ Complete(r2) => Intact(r2)
             /\ r2.item = list[1].msgs /\ r2 # NoBuffer
<1> DEFINE h == list[1]
           n == subs[c].num[s]
           st == subs[c].start[s]
           N == NumFragments(h.bytes)
           S == SentFragments(h)
           d == StreamData(subs[c], list, s)
           U2 == U \ {c}
           r2 == ReadData(r, d)
<1>1. /\ list # <<>> /\ h \in Item /\ CarryHead(subs, s, h)
      /\ S \in Nat /\ N \in Nat \ {0} /\ S <= N
      /\ n \in Nat \ {0} /\ st \in Nat /\ st + n <= S
      /\ d = [item |-> h.msgs, frags |-> N, file |-> h.file, start |-> st, num |-> n]
      /\ Piece(d)
  BY CarriedPiece
<1>2. /\ d.item = h.msgs /\ d.frags = N /\ d.file = h.file /\ d.start = st /\ d.num = n
  BY <1>1
<1>3. /\ U \in SUBSET SubChannel /\ U2 \in SUBSET SubChannel
      /\ \A e \in U : subs[e].num[s] \in Nat \ {0} /\ subs[e].start[s] \in Int
  BY UntakenPart
<1>4. /\ Missing(subs, s, U) = n + Missing(subs, s, U2)
      /\ Missing(subs, s, U) \in Nat /\ Missing(subs, s, U2) \in Nat
  BY <1>3, MissingWithout
<1>5. \A i \in Int : Covers(subs[c], s, i) <=> st <= i /\ i < st + n
  BY DEF Covers
<1>6. \A i \in Int : Stored(subs, s, U2, h, i) <=> Stored(subs, s, U, h, i) \/ Covers(subs[c], s, i)
  <2>1. TAKE i \in Int
  <2>2. ASSUME NEW e \in U2, Covers(subs[e], s, i) PROVE ~Covers(subs[c], s, i)
    <3>1. \/ subs[e].start[s] + subs[e].num[s] <= subs[c].start[s]
          \/ subs[c].start[s] + subs[c].num[s] <= subs[e].start[s]
      BY <1>1 DEF CarryHead
    <3>2. /\ subs[e].num[s] \in Nat /\ subs[e].start[s] \in Int
          /\ subs[c].num[s] \in Nat /\ subs[c].start[s] \in Int
      BY <1>3
    <3>3. subs[e].start[s] <= i /\ i < subs[e].start[s] + subs[e].num[s]
      BY <2>2 DEF Covers
    <3>4. ~(subs[c].start[s] <= i /\ i < subs[c].start[s] + subs[c].num[s])
      BY ONLY <3>1, <3>2, <3>3, i \in Int
    <3> QED BY <3>4 DEF Covers
  <2>3. Covers(subs[c], s, i) => i < S
    BY <1>1, <1>5
  <2>4. (\A e \in U : ~Covers(subs[e], s, i))
          <=> (\A e \in U2 : ~Covers(subs[e], s, i)) /\ ~Covers(subs[c], s, i)
    OBVIOUS
  <2> HIDE DEF U2, S, h
  <2> QED BY <2>2, <2>3, <2>4 DEF Stored, S
<1>7. ~Finished(h, U)
  BY DEF Finished
<1> HIDE DEF h, n, st, N, S, d, U2, r2
<1>8. r2 = Collected(subs, s, U2, h) /\ Stored(subs, s, U2, h, 0)
  <2>1. CASE r = NoBuffer
    <3>1. st = 0
      BY <1>1, <1>2, <2>1 DEF CanRead, Opened, d
    <3>2. Unopened(subs, s, U, h)
      BY <1>1, <1>7, <2>1 DEF Follows, h
    <3>3. \A i \in 0 .. N - 1 : ~Stored(subs, s, U, h, i)
      BY <1>1, <3>2 DEF Unopened, Stored, S
    <3>4. n = S - Missing(subs, s, U2)
      BY <1>1, <1>4, <3>2 DEF Unopened, S
    <3> DEFINE buf == [i \in 0 .. N - 1 |-> Junk]
    <3>5. r2 = [item |-> h.msgs, frags |-> N, file |-> h.file, acked |-> 0 + n,
                buf |-> [i \in 0 .. N - 1 |-> IF i \in st .. st + n - 1 THEN h.msgs ELSE buf[i]]]
      <4>1. d.start = 0 /\ Piece(d)
        BY <1>1, <1>2, <3>1
      <4>2. ReadData(r, d) =
              [item |-> d.item, frags |-> d.frags, file |-> d.file, acked |-> 0 + d.num,
               buf |-> [i \in 0 .. d.frags - 1 |->
                          IF i \in d.start .. d.start + d.num - 1 THEN d.item ELSE Junk]]
        BY ONLY <4>1, FragmentOpened, ZenonT(30)
      <4>3. [i \in 0 .. d.frags - 1 |->
               IF i \in d.start .. d.start + d.num - 1 THEN d.item ELSE Junk]
            = [i \in 0 .. N - 1 |-> IF i \in st .. st + n - 1 THEN h.msgs ELSE buf[i]]
        BY <1>2
      <4> HIDE DEF buf
      <4> QED BY <1>2, <4>2, <4>3 DEF r2
    <3>6. \A i \in 0 .. N - 1 : i \in st .. st + n - 1 <=> Stored(subs, s, U2, h, i)
      BY <1>1, <1>5, <1>6, <3>3
    <3>7. [i \in 0 .. N - 1 |-> IF i \in st .. st + n - 1 THEN h.msgs ELSE buf[i]]
            = [i \in 0 .. N - 1 |-> IF Stored(subs, s, U2, h, i) THEN h.msgs ELSE Junk]
      BY <3>6
    <3>8. r2 = Collected(subs, s, U2, h)
      <4>1. 0 + n = S - Missing(subs, s, U2)
        BY <1>1, <3>4
      <4> QED BY <3>5, <3>7, <4>1 DEF Collected, N, S
    <3>9. Stored(subs, s, U2, h, 0)
      BY <1>1, <3>1, <3>6
    <3> QED BY <3>8, <3>9
  <2>2. CASE r # NoBuffer
    <3>1. r = Collected(subs, s, U, h) /\ Stored(subs, s, U, h, 0)
      BY <1>1, <1>7, <2>2 DEF Follows, h
    <3>2. st # 0
      <4>1. ~Covers(subs[c], s, 0)
        BY <3>1 DEF Stored
      <4> QED BY <1>1, <1>5, <4>1
    <3> DEFINE buf == [i \in 0 .. N - 1 |-> IF Stored(subs, s, U, h, i) THEN h.msgs ELSE Junk]
               k == S - Missing(subs, s, U)
    <3>3. r = [item |-> h.msgs, frags |-> N, file |-> h.file, acked |-> k, buf |-> buf]
      BY <3>1 DEF Collected, N, S
    <3>4. k \in Nat
      <4>1. Missing(subs, s, U) <= h.pending
        BY <1>1, <1>3, PartPending DEF Missing
      <4>2. S = h.acked + h.pending /\ h.acked \in Nat /\ h.pending \in Nat
        BY <1>1, ItemFields DEF S
      <4>3. Missing(subs, s, U) \in Nat
        BY <1>4
      <4> HIDE DEF S
      <4> QED BY ONLY <4>1, <4>2, <4>3
    <3>5. r2 = [item |-> h.msgs, frags |-> N, file |-> h.file, acked |-> k + n,
                buf |-> [i \in 0 .. N - 1 |-> IF i \in st .. st + n - 1 THEN h.msgs ELSE buf[i]]]
      <4> DEFINE it == h.msgs
                 f == h.file
                 a2 == k + n
                 buf2 == [i \in 0 .. N - 1 |-> IF i \in st .. st + n - 1 THEN h.msgs ELSE buf[i]]
      <4>1. Opened(r, d) = r /\ CanRead(r, d)
        BY <1>2, <3>2 DEF Opened, d
      <4>2. /\ r.buf = buf /\ r.acked = k
            /\ [i \in DOMAIN r.buf |-> IF i \in d.start .. d.start + d.num - 1
                                       THEN d.item ELSE r.buf[i]] = buf2
        BY <1>2, <3>3
      <4>3. ReadData(r, d) = [r EXCEPT !.acked = a2, !.buf = buf2]
        BY <1>2, <4>1, <4>2 DEF ReadData
      <4>4. r = [item |-> it, frags |-> N, file |-> f, acked |-> k, buf |-> buf]
        BY <3>3
      <4> HIDE DEF it, f, buf, k, a2, buf2
      <4> DEFINE x == [r EXCEPT !.acked = a2]
      <4>5. x = [item |-> it, frags |-> N, file |-> f, acked |-> a2, buf |-> buf]
        BY ONLY <4>4
      <4> HIDE DEF x
      <4>6. [x EXCEPT !.buf = buf2] = [item |-> it, frags |-> N, file |-> f, acked |-> a2, buf |-> buf2]
        BY ONLY <4>5
      <4> QED BY <4>3, <4>6 DEF x, r2, it, f, a2, buf2
    <3>6. [i \in 0 .. N - 1 |-> IF i \in st .. st + n - 1 THEN h.msgs ELSE buf[i]]
            = [i \in 0 .. N - 1 |-> IF Stored(subs, s, U2, h, i) THEN h.msgs ELSE Junk]
      <4>1. \A i \in 0 .. N - 1 : Stored(subs, s, U2, h, i)
                                    <=> Stored(subs, s, U, h, i) \/ i \in st .. st + n - 1
        BY <1>1, <1>5, <1>6
      <4> QED BY <4>1
    <3>7. k + n = S - Missing(subs, s, U2)
      BY <1>1, <1>4
    <3>8. r2 = Collected(subs, s, U2, h)
      BY <3>5, <3>6, <3>7 DEF Collected, N, S
    <3>9. Stored(subs, s, U2, h, 0)
      BY <1>6, <3>1
    <3> QED BY <3>8, <3>9
  <2> QED BY <2>1, <2>2
<1>9. /\ r2.item = h.msgs /\ r2 # NoBuffer
      /\ Complete(r2) <=> Finished(h, U2)
      /\ ~Overfull(r2) /\ (Complete(r2) => Intact(r2))
  <2>1. U2 \in SUBSET Flight(subs, s)
    BY DEF U2
  <2>2. LET x == Collected(subs, s, U2, h)
        IN  /\ x.item = h.msgs /\ x # NoBuffer
            /\ Complete(x) <=> Finished(h, U2)
            /\ ~Overfull(x) /\ (Complete(x) => Intact(x))
    BY ONLY Fragmented(subs), s \in Stream, <1>1, <2>1, CollectedFacts
  <2> QED BY <1>8, <2>2
<1> QED BY <1>1, <1>8, <1>9 DEF h, d, U2, r2

\* A head that is not started, or not there, may be replaced by another one
\* that is not started.
LEMMA FollowsUnstarted ==
  ASSUME NEW subs, NEW s \in Stream, Fragmented(subs), NEW U \in SUBSET Flight(subs, s),
         NEW list, Waiting(list), Carry(subs, s, list), NEW list2, Waiting(list2),
         list # <<>> =>
           /\ list2 # <<>> /\ SentFragments(list2[1]) = SentFragments(list[1])
           /\ list2[1].msgs = list[1].msgs /\ list2[1].file = list[1].file
           /\ list2[1].bytes = list[1].bytes \/ SentFragments(list[1]) = 0,
         list = <<>> /\ list2 # <<>> => SentFragments(list2[1]) = 0,
         NEW r, Follows(subs, s, U, list, r)
  PROVE  /\ Follows(subs, s, U, list2, r)
         /\ (list # <<>> /\ Finished(list[1], U)) <=> (list2 # <<>> /\ Finished(list2[1], U))
<1>1. list2 # <<>> => NumFragments(list2[1].bytes) \in Nat \ {0}
  BY ItemFields DEF Waiting
<1>2. list # <<>> => NumFragments(list[1].bytes) \in Nat \ {0}
  BY ItemFields DEF Waiting
<1>3. CASE list = <<>>
  <2>1. U = {} /\ r = NoBuffer
    BY <1>3 DEF Carry, Follows
  <2>2. Missing(subs, s, U) = 0
    BY <2>1, SumNothing DEF Missing
  <2>3. CASE list2 = <<>>
    BY <1>3, <2>1, <2>3 DEF Follows
  <2>4. CASE list2 # <<>>
    <3>1. SentFragments(list2[1]) = 0 /\ ~Finished(list2[1], U)
      BY <1>1, <1>3, <2>4 DEF Finished
    <3>2. Unopened(subs, s, U, list2[1])
      BY <2>2, <3>1 DEF Unopened
    <3> QED BY <1>3, <2>1, <2>4, <3>1, <3>2 DEF Follows
  <2> QED BY <2>3, <2>4
<1>4. CASE list # <<>> /\ list2[1].bytes = list[1].bytes
  <2>1. Follows(subs, s, U, list2, r)
    <3>1. \A c \in U : subs[c].num = subs[c].num /\ subs[c].start = subs[c].start
      OBVIOUS
    <3> QED BY <1>4, <3>1, FollowsSame
  <2> QED BY <1>4, <2>1 DEF Finished
<1>5. CASE list # <<>> /\ SentFragments(list[1]) = 0
  <2>1. SentFragments(list2[1]) = 0 /\ list2 # <<>>
    BY <1>5
  <2>2. ~Finished(list[1], U) /\ ~Finished(list2[1], U)
    BY <1>1, <1>2, <1>5, <2>1 DEF Finished
  <2>3. r = NoBuffer
    BY <1>5, <2>2 DEF Follows, Stored
  <2>4. Unopened(subs, s, U, list[1])
    BY <1>5, <2>2, <2>3 DEF Follows
  <2>5. Unopened(subs, s, U, list2[1])
    BY <1>5, <2>1, <2>4 DEF Unopened
  <2> QED BY <2>1, <2>2, <2>3, <2>5 DEF Follows
<1> QED BY <1>3, <1>4, <1>5

\* A head that is acknowledged as a whole has arrived as a whole, and nothing
\* of the next one has been sent.
LEMMA FollowsRemoved ==
  ASSUME NEW subs, NEW s \in Stream, Fragmented(subs), NEW U \in SUBSET Flight(subs, s),
         NEW list, Waiting(list), Carry(subs, s, list), list # <<>>,
         list[1].acked = NumFragments(list[1].bytes),
         NEW r, Follows(subs, s, U, list, r)
  PROVE  /\ Finished(list[1], U) /\ Flight(subs, s) = {}
         /\ Follows(subs, s, U, Tail(list), r)
         /\ Tail(list) # <<>> => ~Finished(Tail(list)[1], U)
<1> DEFINE h == list[1]
           t == Tail(list)
<1>1. h \in Item /\ CarryHead(subs, s, h)
  BY DEF Waiting, Carry
<1>2. /\ h.acked \in Nat /\ h.pending \in Nat /\ SentFragments(h) = h.acked + h.pending
      /\ NumFragments(h.bytes) \in Nat
  BY <1>1, ItemFields
<1>3. SentFragments(h) <= NumFragments(h.bytes)
  BY <1>1 DEF CarryHead
<1>4. h.pending = 0 /\ SentFragments(h) = NumFragments(h.bytes)
  BY <1>2, <1>3
<1>5. Flight(subs, s) = {}
  BY <1>1, <1>4, NothingPending
<1>6. U = {} /\ Finished(h, U)
  BY <1>4, <1>5 DEF Finished
<1>7. r = NoBuffer
  BY <1>6 DEF Follows
<1>8. Waiting(t) /\ (t # <<>> => t[1].acked = 0 /\ t[1].pending = 0)
  BY HeadRemoved
<1> HIDE DEF t
<1>9. CASE t = <<>>
  BY <1>5, <1>6, <1>7, <1>9 DEF Follows, t
<1>10. CASE t # <<>>
  <2>1. t[1] \in Item
    BY <1>8, <1>10 DEF Waiting
  <2>2. SentFragments(t[1]) = 0 /\ NumFragments(t[1].bytes) \in Nat \ {0}
    BY <1>8, <1>10, <2>1, ItemFields
  <2>3. ~Finished(t[1], U)
    BY <2>2 DEF Finished
  <2>4. Missing(subs, s, U) = 0
    BY <1>6, SumNothing DEF Missing
  <2>5. Unopened(subs, s, U, t[1])
    BY <2>2, <2>4 DEF Unopened
  <2>6. Follows(subs, s, U, t, r)
    BY <1>7, <1>10, <2>3, <2>5 DEF Follows
  <2> QED BY <1>5, <1>6, <2>3, <2>6 DEF t
<1> QED BY <1>9, <1>10

-----------------------------------------------------------------------------
(* Where the messages of a queue are *)

\* The messages of a queue from number a + 1 to b.
Cut(queue, a, b) == SubSeq(queue, a + 1, b)

\* The items of a waiting list and what is buffered behind it are the messages
\* of a queue from off[1] to n, item i those from off[i] to off[i + 1].
Placed(list, off, queue, buffered, n) ==
  /\ off \in [1 .. Len(list) + 1 -> Nat]
  /\ \A i \in 1 .. Len(list) :
       /\ off[i] < off[i + 1] /\ off[i + 1] <= n
       /\ list[i].msgs = Cut(queue, off[i], off[i + 1])
  /\ off[Len(list) + 1] <= n
  /\ buffered = Cut(queue, off[Len(list) + 1], n)

\* How many messages the other end has handled.
HandledOf(list, off, U) == IF list # <<>> /\ Finished(list[1], U) THEN off[2] ELSE off[1]

\* A cut of a queue and its length.
LEMMA CutFacts ==
  ASSUME NEW queue \in Seq(Msg), NEW a \in Nat, NEW b \in Nat, a <= b, b <= Len(queue)
  PROVE  /\ Cut(queue, a, b) \in Seq(Msg) /\ Len(Cut(queue, a, b)) = b - a
         /\ Cut(queue, a, b) = <<>> <=> a = b
<1>1. Len(queue) \in Nat /\ \A i \in a + 1 .. b : queue[i] \in Msg
  <2>1. Len(queue) \in Nat /\ \A i \in 1 .. Len(queue) : queue[i] \in Msg
    OBVIOUS
  <2> QED BY <2>1
<1>2. /\ SubSeq(queue, a + 1, b) \in Seq(Msg)
      /\ Len(SubSeq(queue, a + 1, b)) = IF a + 1 <= b THEN b - (a + 1) + 1 ELSE 0
  BY <1>1, SubSeqProperties
<1>3. Len(SubSeq(queue, a + 1, b)) = b - a
  BY <1>2
<1>4. SubSeq(queue, a + 1, b) = <<>> <=> a = b
  <2>1. ASSUME a = b PROVE SubSeq(queue, a + 1, b) = <<>>
    BY <2>1, SubSeqEmpty
  <2>2. ASSUME a # b PROVE SubSeq(queue, a + 1, b) # <<>>
    BY <1>3, <2>2
  <2> QED BY <2>1, <2>2
<1> QED BY <1>2, <1>3, <1>4 DEF Cut

\* One cut after the other.
LEMMA CutsJoin ==
  ASSUME NEW queue \in Seq(Msg), NEW a \in Nat, NEW b \in Nat, NEW c \in Nat,
         a <= b, b <= c, c <= Len(queue)
  PROVE  Cut(queue, a, b) \o Cut(queue, b, c) = Cut(queue, a, c)
<1>1. a + 1 \in 1 .. Len(queue) + 1 /\ b \in (a + 1) - 1 .. Len(queue) /\ c \in b .. Len(queue)
  OBVIOUS
<1> QED BY <1>1, ConcatAdjacentSubSeq DEF Cut

\* The next message.
LEMMA CutNext ==
  ASSUME NEW queue \in Seq(Msg), NEW a \in Nat, NEW n \in Nat, a <= n, n < Len(queue)
  PROVE  /\ queue[n + 1] \in Msg
         /\ Append(Cut(queue, a, n), queue[n + 1]) = Cut(queue, a, n + 1)
         /\ <<queue[n + 1]>> = Cut(queue, n, n + 1)
<1>1. Len(queue) \in Nat /\ queue[n + 1] \in Msg
  <2>1. Len(queue) \in Nat /\ \A i \in 1 .. Len(queue) : queue[i] \in Msg
    OBVIOUS
  <2> QED BY <2>1
<1>2. n + 1 \in Nat /\ n <= n + 1 /\ n + 1 <= Len(queue)
  BY <1>1
<1>3. Cut(queue, a, n) \in Seq(Msg) /\ Cut(queue, n, n) = <<>>
  <2>1. Cut(queue, a, n) \in Seq(Msg)
    BY <1>2, CutFacts
  <2>2. Cut(queue, n, n) = <<>>
    BY SubSeqEmpty DEF Cut
  <2> QED BY <2>1, <2>2
<1>4. <<queue[n + 1]>> = Cut(queue, n, n + 1)
  BY <1>1 DEF Cut
<1>5. Append(Cut(queue, a, n), queue[n + 1]) = Cut(queue, a, n) \o <<queue[n + 1]>>
  <2> DEFINE cut == Cut(queue, a, n)
             m == queue[n + 1]
  <2>1. cut \in Seq(Msg) /\ m \in Msg
    BY <1>1, <1>3
  <2> HIDE DEF cut, m
  <2>2. Append(cut, m) = cut \o <<m>>
    BY ONLY <2>1, AppendIsConcat
  <2> QED BY <2>2 DEF cut, m
<1>6. Cut(queue, a, n) \o Cut(queue, n, n + 1) = Cut(queue, a, n + 1)
  <2> DEFINE b == n + 1
  <2>1. b \in Nat /\ a <= n /\ n <= b /\ b <= Len(queue)
    BY <1>2
  <2> HIDE DEF b
  <2>2. Cut(queue, a, n) \o Cut(queue, n, b) = Cut(queue, a, b)
    BY ONLY queue \in Seq(Msg), a \in Nat, n \in Nat, <2>1, CutsJoin, Zenon
  <2> QED BY <2>2 DEF b
<1> QED BY <1>1, <1>4, <1>5, <1>6

\* The places are numbers in order.
LEMMA PlacedFacts ==
  ASSUME NEW list, Waiting(list), NEW queue \in Seq(Msg), NEW n \in Nat, n <= Len(queue),
         NEW off, NEW buffered, Placed(list, off, queue, buffered, n)
  PROVE  /\ Len(list) \in Nat
         /\ \A i \in 1 .. Len(list) + 1 : off[i] \in Nat /\ off[i] <= n
         /\ buffered \in Seq(Msg) /\ Len(buffered) = n - off[Len(list) + 1]
         /\ buffered = <<>> <=> off[Len(list) + 1] = n
<1>1. Len(list) \in Nat
  BY DEF Waiting
<1>2. \A i \in 1 .. Len(list) + 1 : off[i] \in Nat /\ off[i] <= n
  <2>1. TAKE i \in 1 .. Len(list) + 1
  <2>2. off[i] \in Nat
    BY DEF Placed
  <2>3. CASE i = Len(list) + 1
    BY <2>2, <2>3 DEF Placed
  <2>4. CASE i # Len(list) + 1
    <3>1. i \in 1 .. Len(list) /\ i + 1 \in 1 .. Len(list) + 1
      BY <1>1, <2>4
    <3>2. off[i] < off[i + 1] /\ off[i + 1] <= n /\ off[i + 1] \in Nat
      BY <3>1 DEF Placed
    <3> QED BY <2>2, <3>2
  <2> QED BY <2>3, <2>4
<1>3. off[Len(list) + 1] \in Nat /\ off[Len(list) + 1] <= n
  BY <1>1, <1>2
<1>4. buffered = Cut(queue, off[Len(list) + 1], n)
  BY DEF Placed
<1>5. /\ buffered \in Seq(Msg) /\ Len(buffered) = n - off[Len(list) + 1]
      /\ buffered = <<>> <=> off[Len(list) + 1] = n
  <2> DEFINE a == off[Len(list) + 1]
  <2>1. a \in Nat /\ a <= n /\ buffered = Cut(queue, a, n)
    BY <1>3, <1>4
  <2> HIDE DEF a
  <2>2. /\ buffered \in Seq(Msg) /\ Len(buffered) = n - a
        /\ buffered = <<>> <=> a = n
    BY <2>1, CutFacts
  <2> QED BY <2>2 DEF a
<1> QED BY ONLY <1>1, <1>2, <1>5, Zenon

\* What was handled is between the first place and the last.
LEMMA HandledFacts ==
  ASSUME NEW list, Waiting(list), NEW queue \in Seq(Msg), NEW n \in Nat, n <= Len(queue),
         NEW off, NEW buffered, Placed(list, off, queue, buffered, n), NEW U
  PROVE  /\ off[1] \in Nat /\ off[1] <= n
         /\ HandledOf(list, off, U) \in Nat
         /\ off[1] <= HandledOf(list, off, U) /\ HandledOf(list, off, U) <= n
         /\ list # <<>> => off[2] \in Nat /\ off[1] < off[2] /\ off[2] <= n
<1>1. /\ Len(list) \in Nat
      /\ \A i \in 1 .. Len(list) + 1 : off[i] \in Nat /\ off[i] <= n
  BY PlacedFacts
<1>2. off[1] \in Nat /\ off[1] <= n
  BY <1>1
<1>3. ASSUME list # <<>> PROVE off[2] \in Nat /\ off[1] < off[2] /\ off[2] <= n
  <2>1. 1 \in 1 .. Len(list) /\ 1 + 1 = 2 /\ 2 \in 1 .. Len(list) + 1
    BY <1>1, <1>3 DEF Waiting
  <2>2. off[1] < off[2]
    BY <2>1 DEF Placed
  <2> QED BY <1>1, <2>1, <2>2
<1>4. \/ HandledOf(list, off, U) = off[1]
      \/ list # <<>> /\ HandledOf(list, off, U) = off[2]
  BY DEF HandledOf
<1> HIDE DEF HandledOf
<1> QED BY ONLY <1>2, <1>3, <1>4, n \in Nat

\* A message more is buffered.
LEMMA PlacedBuffered ==
  ASSUME NEW list, Waiting(list), NEW queue \in Seq(Msg), NEW n \in Nat, n < Len(queue),
         NEW off, NEW buffered, Placed(list, off, queue, buffered, n)
  PROVE  Placed(list, off, queue, Append(buffered, queue[n + 1]), n + 1)
<1> DEFINE a == off[Len(list) + 1]
<1>1. /\ Len(list) \in Nat /\ \A i \in 1 .. Len(list) + 1 : off[i] \in Nat /\ off[i] <= n
  <2>1. n <= Len(queue)
    <3>1. Len(queue) \in Nat
      OBVIOUS
    <3> QED BY <3>1
  <2> QED BY <2>1, PlacedFacts
<1>2. a \in Nat /\ a <= n /\ buffered = Cut(queue, a, n)
  BY <1>1 DEF Placed
<1>3. Append(buffered, queue[n + 1]) = Cut(queue, a, n + 1)
  <2> HIDE DEF a
  <2> QED BY <1>2, CutNext
<1>4. a <= n + 1
  BY <1>2
<1>5. \A i \in 1 .. Len(list) : off[i] < off[i + 1] /\ off[i + 1] <= n + 1
  <2>1. TAKE i \in 1 .. Len(list)
  <2>2. off[i] < off[i + 1] /\ off[i + 1] <= n
    BY DEF Placed
  <2>3. off[i] \in Nat /\ off[i + 1] \in Nat
    BY <1>1
  <2> QED BY <2>2, <2>3
<1> QED BY <1>3, <1>4, <1>5 DEF Placed

\* Other items with the same messages.
LEMMA PlacedSame ==
  ASSUME NEW list, NEW list2, Len(list2) = Len(list),
         \A i \in 1 .. Len(list) : list2[i].msgs = list[i].msgs,
         NEW queue, NEW n, NEW off, NEW buffered, Placed(list, off, queue, buffered, n)
  PROVE  Placed(list2, off, queue, buffered, n)
BY DEF Placed

\* An item behind the others.
LEMMA PlacedItem ==
  ASSUME NEW list, Waiting(list), NEW queue \in Seq(Msg), NEW n \in Nat, n <= Len(queue),
         NEW off, NEW buffered, Placed(list, off, queue, buffered, n),
         NEW n2 \in Nat, n <= n2, n2 <= Len(queue), off[Len(list) + 1] < n2,
         NEW item, item.msgs = Cut(queue, off[Len(list) + 1], n2)
  PROVE  \E off2 : /\ Placed(Append(list, item), off2, queue, <<>>, n2)
                   /\ off2[1] = off[1] /\ (list # <<>> => off2[2] = off[2])
<1> DEFINE k == Len(list)
           list2 == Append(list, item)
           off2 == [i \in 1 .. k + 2 |-> IF i = k + 2 THEN n2 ELSE off[i]]
<1>1. /\ k \in Nat /\ \A i \in 1 .. k + 1 : off[i] \in Nat /\ off[i] <= n
  BY PlacedFacts
<1>2. /\ Len(list2) = k + 1 /\ list2[k + 1] = item
      /\ \A i \in 1 .. k : list2[i] = list[i]
  BY DEF Waiting
<1>3. off2 \in [1 .. Len(list2) + 1 -> Nat]
  BY <1>1, <1>2
<1>4. \A i \in 1 .. k + 1 : off2[i] = off[i]
  BY <1>1
<1>5. off2[k + 2] = n2
  BY <1>1
<1> HIDE DEF off2
<1>6. ASSUME NEW i \in 1 .. k + 1
      PROVE  /\ off2[i] < off2[i + 1] /\ off2[i + 1] <= n2
             /\ list2[i].msgs = Cut(queue, off2[i], off2[i + 1])
  <2>1. CASE i = k + 1
    <3>1. i + 1 = k + 2
      BY <1>1, <2>1
    <3>2. off2[i] = off[k + 1] /\ off2[i + 1] = n2
      BY <1>1, <1>4, <1>5, <2>1, <3>1
    <3> QED BY <1>2, <2>1, <3>2
  <2>2. CASE i # k + 1
    <3>1. i \in 1 .. k /\ i + 1 \in 1 .. k + 1
      BY <1>1, <2>2
    <3>2. /\ off[i] < off[i + 1] /\ off[i + 1] <= n
          /\ list[i].msgs = Cut(queue, off[i], off[i + 1])
      BY <3>1 DEF Placed
    <3>3. off2[i] = off[i] /\ off2[i + 1] = off[i + 1] /\ off[i + 1] \in Nat
      BY <1>1, <1>4, <3>1
    <3>4. off[i + 1] <= n2
      BY <3>2, <3>3
    <3> QED BY <1>2, <3>1, <3>2, <3>3, <3>4
  <2> QED BY <2>1, <2>2
<1>7. <<>> = Cut(queue, n2, n2)
  BY SubSeqEmpty DEF Cut
<1>8. Placed(list2, off2, queue, <<>>, n2)
  <2>1. Len(list2) + 1 = k + 2
    BY <1>1, <1>2
  <2>2. off2[Len(list2) + 1] = n2
    BY <1>5, <2>1
  <2>3. \A i \in 1 .. Len(list2) :
          /\ off2[i] < off2[i + 1] /\ off2[i + 1] <= n2
          /\ list2[i].msgs = Cut(queue, off2[i], off2[i + 1])
    BY <1>2, <1>6
  <2> QED BY <1>3, <1>7, <2>2, <2>3 DEF Placed
<1>9. off2[1] = off[1] /\ (list # <<>> => off2[2] = off[2])
  <2>1. list # <<>> => k >= 1
    BY <1>1 DEF Waiting
  <2> QED BY <1>1, <1>4, <2>1
<1> QED BY <1>8, <1>9

\* What is buffered goes into the last item, which is not the head.
LEMMA PlacedMerged ==
  ASSUME NEW list, Waiting(list), Len(list) > 1, NEW queue \in Seq(Msg), NEW n \in Nat,
         n <= Len(queue), NEW off, NEW buffered, Placed(list, off, queue, buffered, n),
         NEW list2, Len(list2) = Len(list),
         \A i \in 1 .. Len(list) - 1 : list2[i].msgs = list[i].msgs,
         list2[Len(list)].msgs = list[Len(list)].msgs \o buffered
  PROVE  \E off2 : /\ Placed(list2, off2, queue, <<>>, n)
                   /\ off2[1] = off[1] /\ off2[2] = off[2]
<1> DEFINE k == Len(list)
           off2 == [i \in 1 .. k + 1 |-> IF i = k + 1 THEN n ELSE off[i]]
<1>1. /\ k \in Nat /\ k > 1 /\ \A i \in 1 .. k + 1 : off[i] \in Nat /\ off[i] <= n
  BY PlacedFacts
<1>2. off2 \in [1 .. k + 1 -> Nat]
  BY <1>1
<1>3. off2[k + 1] = n /\ \A i \in 1 .. k : off2[i] = off[i]
  BY <1>1
<1> HIDE DEF off2
<1>4. ASSUME NEW i \in 1 .. k
      PROVE  /\ off2[i] < off2[i + 1] /\ off2[i + 1] <= n
             /\ list2[i].msgs = Cut(queue, off2[i], off2[i + 1])
  <2>1. /\ off[i] < off[i + 1] /\ off[i + 1] <= n
        /\ list[i].msgs = Cut(queue, off[i], off[i + 1])
        /\ off[i] \in Nat /\ off[i + 1] \in Nat /\ off2[i] = off[i]
    BY <1>1, <1>3 DEF Placed
  <2>2. CASE i = k
    <3>1. off2[i + 1] = n
      BY <1>3, <2>2
    <3>2. buffered = Cut(queue, off[i + 1], n)
      BY <2>2 DEF Placed
    <3> DEFINE a == off[i]
               b == off[i + 1]
    <3>3. Cut(queue, a, b) \o Cut(queue, b, n) = Cut(queue, a, n)
      <4>1. a \in Nat /\ b \in Nat /\ a <= b /\ b <= n
        BY <2>1
      <4> HIDE DEF a, b
      <4> QED BY ONLY queue \in Seq(Msg), n \in Nat, n <= Len(queue), <4>1, CutsJoin, Zenon
    <3>4. list2[i].msgs = list[i].msgs \o buffered
      BY <2>2
    <3>5. off[i] < n
      BY <2>1
    <3> QED BY <2>1, <3>1, <3>2, <3>3, <3>4, <3>5
  <2>3. CASE i # k
    <3>1. i + 1 \in 1 .. k /\ i \in 1 .. k - 1
      BY <1>1, <2>3
    <3> QED BY <1>3, <2>1, <3>1
  <2> QED BY <2>2, <2>3
<1>5. <<>> = Cut(queue, n, n)
  BY SubSeqEmpty DEF Cut
<1>6. Placed(list2, off2, queue, <<>>, n)
  BY <1>2, <1>3, <1>4, <1>5 DEF Placed
<1> QED BY <1>1, <1>3, <1>6

\* CreateFragmentsFromBuffer moves what is buffered onto the waiting list.
LEMMA PlacedCreated ==
  ASSUME NEW list, Waiting(list), NEW queue \in Seq(Msg), NEW n \in Nat, n <= Len(queue),
         NEW off, NEW buffered, Placed(list, off, queue, buffered, n)
  PROVE  \E off2 : /\ Placed(CreateFragments(list, buffered), off2, queue, <<>>, n)
                   /\ off2[1] = off[1] /\ (list # <<>> => off2[2] = off[2])
<1> DEFINE k == Len(list)
           list2 == CreateFragments(list, buffered)
           a == off[k + 1]
<1>1. /\ k \in Nat /\ a \in Nat /\ a <= n
      /\ buffered \in Seq(Msg) /\ (buffered = <<>> <=> a = n)
  <2>1. /\ Len(list) \in Nat /\ \A i \in 1 .. Len(list) + 1 : off[i] \in Nat /\ off[i] <= n
        /\ buffered \in Seq(Msg) /\ (buffered = <<>> <=> off[Len(list) + 1] = n)
    BY PlacedFacts
  <2> QED BY <2>1
<1>2. CASE buffered = <<>>
  BY <1>2 DEF CreateFragments
<1>3. CASE buffered # <<>> /\ MayMerge(list, TotalBytes(buffered))
  <2> DEFINE item == NewItem(list[k].msgs \o buffered, list[k].bytes + TotalBytes(buffered), FALSE)
  <2>1. list2 = [list EXCEPT ![k] = item]
    BY <1>3 DEF CreateFragments
  <2>2. item.msgs = list[k].msgs \o buffered
    BY DEF NewItem
  <2> HIDE DEF item
  <2>3. Len(list) > 1 /\ list \in Seq(Item)
    BY <1>3 DEF MayMerge, Waiting
  <2>4. /\ Len(list2) = Len(list) /\ list2[Len(list)] = item
        /\ \A i \in 1 .. Len(list) - 1 : list2[i] = list[i]
    BY <1>1, <2>1, <2>3
  <2> HIDE DEF list2
  <2>6. /\ \A i \in 1 .. Len(list) - 1 : list2[i].msgs = list[i].msgs
        /\ list2[Len(list)].msgs = list[Len(list)].msgs \o buffered
    BY <2>2, <2>4
  <2>5. \E off2 : Placed(list2, off2, queue, <<>>, n) /\ off2[1] = off[1] /\ off2[2] = off[2]
    <3>1. Len(list) > 1 /\ Len(list2) = Len(list)
      BY <2>3, <2>4
    <3> QED
      BY ONLY Waiting(list), queue \in Seq(Msg), n \in Nat, n <= Len(queue),
              Placed(list, off, queue, buffered, n), <3>1, <2>6, PlacedMerged, SMTT(30)
  <2> QED BY <2>5 DEF list2
<1>4. CASE buffered # <<>> /\ ~MayMerge(list, TotalBytes(buffered))
  <2> DEFINE item == NewItem(buffered, TotalBytes(buffered), FALSE)
  <2>1. list2 = Append(list, item)
    BY <1>4 DEF CreateFragments
  <2>2. item.msgs = Cut(queue, off[Len(list) + 1], n) /\ off[Len(list) + 1] < n /\ n <= n
    BY <1>1, <1>4 DEF NewItem, Placed
  <2> HIDE DEF item, list2
  <2>3. \E off2 : /\ Placed(Append(list, item), off2, queue, <<>>, n)
                  /\ off2[1] = off[1] /\ (list # <<>> => off2[2] = off[2])
    BY ONLY Waiting(list), queue \in Seq(Msg), n \in Nat, n <= Len(queue),
            Placed(list, off, queue, buffered, n), <2>2, PlacedItem, SMTT(30)
  <2> QED BY <2>1, <2>3 DEF list2
<1> QED BY <1>2, <1>3, <1>4

\* The head leaves the waiting list: the next item is in the second place.
LEMMA PlacedRemoved ==
  ASSUME NEW list, Waiting(list), list # <<>>, NEW queue \in Seq(Msg), NEW n \in Nat,
         n <= Len(queue), NEW off, NEW buffered, Placed(list, off, queue, buffered, n)
  PROVE  \E off2 : Placed(Tail(list), off2, queue, buffered, n) /\ off2[1] = off[2]
<1> DEFINE k == Len(list)
           t == Tail(list)
           off2 == [i \in 1 .. k |-> off[i + 1]]
<1>1. k \in Nat /\ \A i \in 1 .. k + 1 : off[i] \in Nat /\ off[i] <= n
  BY PlacedFacts
<1>2. k >= 1
  BY <1>1 DEF Waiting
<1>3. Len(t) = k - 1 /\ \A i \in 1 .. k - 1 : t[i] = list[i + 1]
  BY HeadRemoved
<1>4. off2 \in [1 .. k -> Nat]
  BY <1>1
<1>5. \A i \in 1 .. k : off2[i] = off[i + 1]
  OBVIOUS
<1> HIDE DEF off2, t
<1>6. ASSUME NEW i \in 1 .. k - 1
      PROVE  /\ off2[i] < off2[i + 1] /\ off2[i + 1] <= n
             /\ t[i].msgs = Cut(queue, off2[i], off2[i + 1])
  <2>1. i + 1 \in 1 .. k /\ i \in 1 .. k
    BY <1>1
  <2>2. /\ off[i + 1] < off[(i + 1) + 1] /\ off[(i + 1) + 1] <= n
        /\ list[i + 1].msgs = Cut(queue, off[i + 1], off[(i + 1) + 1])
    BY <2>1 DEF Placed
  <2>3. off2[i] = off[i + 1] /\ off2[i + 1] = off[(i + 1) + 1] /\ t[i] = list[i + 1]
    BY <1>3, <1>5, <2>1
  <2> QED BY <2>2, <2>3
<1>7. Len(t) + 1 = k
  BY <1>1, <1>3
<1>8. off2[k] = off[k + 1]
  BY <1>2, <1>5
<1>9. off[k + 1] <= n /\ buffered = Cut(queue, off[k + 1], n)
  BY DEF Placed
<1>10. Placed(t, off2, queue, buffered, n)
  BY <1>3, <1>4, <1>6, <1>7, <1>8, <1>9 DEF Placed
<1>11. off2[1] = off[2]
  <2>1. 1 \in 1 .. k /\ 1 + 1 = 2
    BY <1>2
  <2> QED BY <1>5, <2>1
<1> QED BY <1>10, <1>11 DEF t

-----------------------------------------------------------------------------
(* One direction of a stream, as a relation of values *)

\* The receive buffer goes with the waiting list, list and buffer hold what was
\* not released, and the handlers have seen the queue up to HandledOf.
Conveyed(subs, s, U, list, r, off, queue, buffered, n, seen) ==
  /\ Follows(subs, s, U, list, r)
  /\ Placed(list, off, queue, buffered, n)
  /\ seen = Cut(queue, 0, HandledOf(list, off, U))

\* A head that is there stays, what is new in its place is not started; the
\* first places of the queue stay as well.
HeadStays(list, list2) ==
  /\ list # <<>> =>
       /\ list2 # <<>> /\ SentFragments(list2[1]) = SentFragments(list[1])
       /\ list2[1].msgs = list[1].msgs /\ list2[1].file = list[1].file
       /\ list2[1].bytes = list[1].bytes \/ SentFragments(list[1]) = 0
  /\ list = <<>> /\ list2 # <<>> => SentFragments(list2[1]) = 0
PlacesStay(list, off, off2) == off2[1] = off[1] /\ (list # <<>> => off2[2] = off[2])

\* More behind a head that stays, or a first item.
LEMMA FollowsGrown ==
  ASSUME NEW subs, NEW s \in Stream, Fragmented(subs), NEW U \in SUBSET Flight(subs, s),
         NEW list, Waiting(list), Carry(subs, s, list), NEW list2, Waiting(list2),
         HeadStays(list, list2), NEW r, Follows(subs, s, U, list, r),
         NEW off, NEW off2, PlacesStay(list, off, off2)
  PROVE  /\ Follows(subs, s, U, list2, r)
         /\ HandledOf(list2, off2, U) = HandledOf(list, off, U)
<1>1. /\ Follows(subs, s, U, list2, r)
      /\ (list # <<>> /\ Finished(list[1], U)) <=> (list2 # <<>> /\ Finished(list2[1], U))
  BY FollowsUnstarted DEF HeadStays
<1>2. HandledOf(list2, off2, U) = HandledOf(list, off, U)
  BY <1>1 DEF HandledOf, PlacesStay
<1> QED BY <1>1, <1>2

\* Fields Follows does not look at change.
LEMMA ConveyedSame ==
  ASSUME NEW subs, NEW subs2, NEW s \in Stream, Fragmented(subs),
         NEW U \in SUBSET Flight(subs, s),
         \A c \in U : subs2[c].num = subs[c].num /\ subs2[c].start = subs[c].start,
         NEW list, NEW list2, Len(list2) = Len(list), list = <<>> <=> list2 = <<>>,
         \A i \in 1 .. Len(list) : list2[i].msgs = list[i].msgs,
         list # <<>> =>
           /\ SentFragments(list2[1]) = SentFragments(list[1]) /\ list2[1].bytes = list[1].bytes
           /\ list2[1].msgs = list[1].msgs /\ list2[1].file = list[1].file,
         NEW r, NEW off, NEW queue, NEW buffered, NEW n, NEW seen,
         Conveyed(subs, s, U, list, r, off, queue, buffered, n, seen)
  PROVE  /\ Conveyed(subs2, s, U, list2, r, off, queue, buffered, n, seen)
         /\ HandledOf(list2, off, U) = HandledOf(list, off, U)
<1>1. /\ Follows(subs, s, U, list, r) /\ Placed(list, off, queue, buffered, n)
      /\ seen = Cut(queue, 0, HandledOf(list, off, U))
  BY DEF Conveyed
<1>2. Follows(subs2, s, U, list2, r)
  BY <1>1, FollowsSame
<1>3. Placed(list2, off, queue, buffered, n)
  BY <1>1, PlacedSame
<1>4. HandledOf(list2, off, U) = HandledOf(list, off, U)
  BY DEF HandledOf, Finished
<1> QED BY <1>1, <1>2, <1>3, <1>4 DEF Conveyed

\* Subchannel c0 takes the next k fragments of the head.
Grows(subs, subs2, s, U, c0, list, list2, k) ==
  /\ Fragmented(subs) /\ Fragmented(subs2)
  /\ U \in SUBSET SubChannel /\ c0 \in SubChannel /\ c0 \notin U
  /\ \A c \in U : subs2[c].num = subs[c].num /\ subs2[c].start = subs[c].start
  /\ Waiting(list) /\ list # <<>> /\ Waiting(list2) /\ list2 # <<>>
  /\ Len(list2) = Len(list) /\ \A i \in 1 .. Len(list) : list2[i].msgs = list[i].msgs
  /\ k = subs2[c0].num[s] /\ k > 0 /\ subs2[c0].start[s] = SentFragments(list[1])
  /\ SentFragments(list[1]) + k <= NumFragments(list[1].bytes)
  /\ SentFragments(list2[1]) = SentFragments(list[1]) + k
  /\ list2[1].bytes = list[1].bytes /\ list2[1].msgs = list[1].msgs
  /\ list2[1].file = list[1].file

\* What was to be conveyed still is when a subchannel takes the next fragments.
LEMMA ConveyedGains ==
  ASSUME NEW subs, NEW subs2, NEW s \in Stream, NEW U, NEW c0, NEW list, NEW list2, NEW k,
         Grows(subs, subs2, s, U, c0, list, list2, k),
         NEW r, NEW off, NEW queue, NEW buffered, NEW n, NEW seen,
         Conveyed(subs, s, U, list, r, off, queue, buffered, n, seen)
  PROVE  /\ Conveyed(subs2, s, U \cup {c0}, list2, r, off, queue, buffered, n, seen)
         /\ HandledOf(list2, off, U \cup {c0}) = HandledOf(list, off, U)
<1> USE DEF Grows
<1>1. /\ Follows(subs, s, U, list, r) /\ Placed(list, off, queue, buffered, n)
      /\ seen = Cut(queue, 0, HandledOf(list, off, U))
  BY DEF Conveyed
<1>2. Follows(subs2, s, U \cup {c0}, list2, r)
  BY <1>1, FollowsGains
<1>3. Placed(list2, off, queue, buffered, n)
  BY <1>1, PlacedSame
<1>4. ~Finished(list[1], U)
  <2>1. list[1] \in Item
    BY DEF Waiting
  <2>2. SentFragments(list[1]) \in Nat /\ NumFragments(list[1].bytes) \in Nat
    BY <2>1, ItemFields
  <2>3. k \in Nat
    BY DEF Fragmented
  <2>4. SentFragments(list[1]) # NumFragments(list[1].bytes)
    BY ONLY <2>2, <2>3, k > 0, SentFragments(list[1]) + k <= NumFragments(list[1].bytes)
  <2> QED BY <2>4 DEF Finished
<1>5. ~Finished(list2[1], U \cup {c0})
  BY DEF Finished
<1>6. HandledOf(list2, off, U \cup {c0}) = HandledOf(list, off, U)
  BY <1>4, <1>5 DEF HandledOf
<1> QED BY <1>1, <1>2, <1>3, <1>6 DEF Conveyed

\* The head, acknowledged as a whole, leaves.
LEMMA ConveyedRemoved ==
  ASSUME NEW subs, NEW s \in Stream, Fragmented(subs), NEW U \in SUBSET Flight(subs, s),
         NEW list, Waiting(list), Carry(subs, s, list), list # <<>>,
         list[1].acked = NumFragments(list[1].bytes),
         NEW r, NEW off, NEW queue \in Seq(Msg), NEW buffered, NEW n \in Nat, n <= Len(queue),
         NEW seen, Conveyed(subs, s, U, list, r, off, queue, buffered, n, seen)
  PROVE  \E off2 : /\ Conveyed(subs, s, U, Tail(list), r, off2, queue, buffered, n, seen)
                   /\ off2[1] = HandledOf(list, off, U)
                   /\ HandledOf(Tail(list), off2, U) = HandledOf(list, off, U)
<1>1. /\ Follows(subs, s, U, list, r) /\ Placed(list, off, queue, buffered, n)
      /\ seen = Cut(queue, 0, HandledOf(list, off, U))
  BY DEF Conveyed
<1>2. /\ Finished(list[1], U) /\ Follows(subs, s, U, Tail(list), r)
      /\ Tail(list) # <<>> => ~Finished(Tail(list)[1], U)
  BY <1>1, FollowsRemoved
<1>3. PICK off2 : Placed(Tail(list), off2, queue, buffered, n) /\ off2[1] = off[2]
  BY <1>1, PlacedRemoved
<1>4. HandledOf(list, off, U) = off[2]
  BY <1>2 DEF HandledOf
<1>5. HandledOf(Tail(list), off2, U) = off2[1]
  BY <1>2 DEF HandledOf
<1>6. Conveyed(subs, s, U, Tail(list), r, off2, queue, buffered, n, seen)
  BY <1>1, <1>2, <1>3, <1>4, <1>5 DEF Conveyed
<1> QED BY <1>3, <1>4, <1>5, <1>6

\* The other end reads what a subchannel carries; what it completes with that is
\* the next messages of the queue.
LEMMA ConveyedTaken ==
  ASSUME NEW subs, Fragmented(subs), NEW s \in Stream, NEW list, Waiting(list),
         Carry(subs, s, list), NEW U \in SUBSET Flight(subs, s), NEW c \in U,
         NEW r, CanRead(r, StreamData(subs[c], list, s)),
         NEW off, NEW queue \in Seq(Msg), NEW buffered, NEW n \in Nat, n <= Len(queue),
         NEW seen, Conveyed(subs, s, U, list, r, off, queue, buffered, n, seen)
  PROVE  LET r2 == ReadData(r, StreamData(subs[c], list, s))
             U2 == U \ {c}
         IN  /\ ~Overfull(r2) /\ (Complete(r2) => Intact(r2))
             /\ HandledOf(list, off, U) <= HandledOf(list, off, U2)
             /\ Complete(r2) =>
                  Conveyed(subs, s, U2, list, NoBuffer, off, queue, buffered, n, seen \o r2.item)
             /\ ~Complete(r2) =>
                  Conveyed(subs, s, U2, list, r2, off, queue, buffered, n, seen)
<1> DEFINE r2 == ReadData(r, StreamData(subs[c], list, s))
           U2 == U \ {c}
<1>1. /\ Follows(subs, s, U, list, r) /\ Placed(list, off, queue, buffered, n)
      /\ seen = Cut(queue, 0, HandledOf(list, off, U))
  BY DEF Conveyed
<1>2. /\ list # <<>>
      /\ r2 = Collected(subs, s, U2, list[1]) /\ Stored(subs, s, U2, list[1], 0)
      /\ Complete(r2) <=> Finished(list[1], U2)
      /\ ~Overfull(r2)
      /\ Complete(r2) => Intact(r2)
      /\ r2.item = list[1].msgs /\ r2 # NoBuffer
  <2>1. Follows(subs, s, U, list, r)
    BY <1>1
  <2> QED
    BY ONLY Fragmented(subs), s \in Stream, Waiting(list), Carry(subs, s, list),
            U \in SUBSET Flight(subs, s), c \in U, <2>1, FollowsTaken,
            CanRead(r, StreamData(subs[c], list, s)), ZenonT(30)
<1>3. HandledOf(list, off, U) = off[1]
  BY DEF HandledOf, Finished
<1> HIDE DEF r2, U2
<1>4. /\ off[1] \in Nat /\ off[2] \in Nat /\ off[1] < off[2] /\ off[2] <= n
  BY <1>1, <1>2, HandledFacts
<1>5. HandledOf(list, off, U2) = IF Complete(r2) THEN off[2] ELSE off[1]
  BY <1>2 DEF HandledOf
<1>6. HandledOf(list, off, U) <= HandledOf(list, off, U2)
  BY <1>3, <1>4, <1>5
<1>7. ASSUME Complete(r2)
      PROVE  Conveyed(subs, s, U2, list, NoBuffer, off, queue, buffered, n, seen \o r2.item)
  <2>1. Follows(subs, s, U2, list, NoBuffer)
    BY <1>2, <1>7 DEF Follows
  <2>2. r2.item = Cut(queue, off[1], off[2])
    <3>1. 1 \in 1 .. Len(list) /\ 1 + 1 = 2
      BY <1>2 DEF Waiting
    <3>2. list[1].msgs = Cut(queue, off[1], off[1 + 1])
      BY <1>1, <3>1 DEF Placed
    <3> QED BY <1>2, <3>2
  <2> DEFINE a == off[1]
             b == off[2]
  <2>3. Cut(queue, 0, a) \o Cut(queue, a, b) = Cut(queue, 0, b)
    <3>1. 0 \in Nat /\ a \in Nat /\ b \in Nat /\ 0 <= a /\ a <= b /\ b <= Len(queue)
      <4>1. Len(queue) \in Nat
        OBVIOUS
      <4> QED BY <1>4, <4>1
    <3> HIDE DEF a, b
    <3> QED BY ONLY queue \in Seq(Msg), <3>1, CutsJoin, Zenon
  <2>4. seen \o r2.item = Cut(queue, 0, HandledOf(list, off, U2))
    BY <1>1, <1>3, <1>5, <1>7, <2>2, <2>3
  <2> QED BY <1>1, <2>1, <2>4 DEF Conveyed
<1>8. ASSUME ~Complete(r2)
      PROVE  Conveyed(subs, s, U2, list, r2, off, queue, buffered, n, seen)
  <2>1. Follows(subs, s, U2, list, r2)
    BY <1>2, <1>8 DEF Follows
  <2> QED BY <1>1, <1>3, <1>5, <1>8, <2>1 DEF Conveyed
<1> QED BY <1>2, <1>6, <1>7, <1>8 DEF r2, U2

\* A buffer that goes with a waiting list holds pieces of one item, not all of
\* them: a complete one has been handled and freed.
LEMMA ConveyedIncomplete ==
  ASSUME NEW subs, Fragmented(subs), NEW s \in Stream, NEW list, Waiting(list),
         Carry(subs, s, list), NEW U \in SUBSET Flight(subs, s), NEW r,
         Follows(subs, s, U, list, r)
  PROVE  /\ ~Complete(r) /\ ~Overfull(r)
         /\ r # NoBuffer => \A i \in DOMAIN r.buf : r.buf[i] \in {Junk, r.item}
<1>1. CASE r = NoBuffer
  BY <1>1 DEF Complete, Overfull
<1>2. CASE r # NoBuffer
  <2>1. list # <<>> /\ ~Finished(list[1], U) /\ r = Collected(subs, s, U, list[1])
    BY <1>2 DEF Follows
  <2>2. list[1] \in Item /\ CarryHead(subs, s, list[1])
    BY <2>1 DEF Waiting, Carry
  <2> DEFINE h == list[1]
             x == Collected(subs, s, U, h)
  <2>3. h \in Item /\ CarryHead(subs, s, h)
    BY <2>2
  <2> HIDE DEF h
  <2>4. /\ x # NoBuffer /\ (Complete(x) <=> Finished(h, U)) /\ ~Overfull(x)
        /\ \A i \in DOMAIN x.buf : x.buf[i] \in {Junk, x.item}
    BY ONLY Fragmented(subs), s \in Stream, <2>3, U \in SUBSET Flight(subs, s), CollectedFacts
  <2>5. r = x /\ ~Finished(h, U)
    BY <2>1 DEF h
  <2> HIDE DEF x
  <2> QED BY ONLY <2>4, <2>5, Zenon
<1> QED BY <1>1, <1>2

\* Nothing waits in a stream that has no messages.
LEMMA ConveyedEmpty ==
  ASSUME NEW list, Waiting(list), NEW off, NEW buffered, NEW n \in Nat,
         NEW queue \in Seq(Msg), n <= Len(queue), Placed(list, off, queue, buffered, n),
         queue = <<>>
  PROVE  list = <<>>
<1>1. Len(queue) = 0
  OBVIOUS
<1>2. n = 0
  BY <1>1
<1>3. /\ off[1] \in Nat /\ HandledOf(list, off, {}) \in Nat
      /\ list # <<>> => off[2] \in Nat /\ off[1] < off[2] /\ off[2] <= n
  BY HandledFacts
<1> QED BY <1>2, <1>3

-----------------------------------------------------------------------------
(* The invariant *)

\* m_StreamReliable belongs to the normal stream.
Buffered(p, s) == IF s = NORMAL THEN streamReliable[p] ELSE <<>>
Unread(p, s) == Untaken(sub[p], outRel[p], inRel[Other(p)], s)
Seen(p, s, off) == HandledOf(waitingList[p][s], off, Unread(p, s))

LosslessAt(p, s, off) ==
  Conveyed(sub[p], s, Unread(p, s), waitingList[p][s], receiveList[Other(p)][s], off,
           Outbox[p][s], Buffered(p, s), sent[p][s], delivered[Other(p)][s])

\* Datagrams not overtaken carry what their subchannel does.
DataFresh(p) ==
  \A d \in net[Other(p)] : Fresh(Other(p), d) /\ d.sub # NoSub =>
    \A s \in Stream : d.data[s] = StreamData(sub[p][d.sub], waitingList[p][s], s)

\* Nothing is cleared while it is on the wire.
NoneDirty(p) == \A c \in SubChannel : sub[p][c].state # "DIRTY"

CInv ==
  \A p \in Peer :
    NoneDirty(p) /\ DataFresh(p) /\ \A s \in Stream : \E off : LosslessAt(p, s, off)

\* Nobody clears the channel, no handler fails, a direction uses one stream.
Steady ==
  /\ ClearMsgs = {} /\ FailMsgs = {}
  /\ \A p \in Peer : MaxClears[p] = 0
  /\ \A p \in Peer : \E s \in Stream : Outbox[p][s] = <<>>

\* A step in one direction of a stream: nothing leaves before it is handled.
Onward(p, s, off, off2) ==
  /\ LosslessAt(p, s, off2)'
  /\ off2[1] \in {off[1], Seen(p, s, off)}
  /\ Seen(p, s, off) <= Seen(p, s, off2)'

\* What DInv says of one direction of a stream.
LEMMA Direction ==
  ASSUME DInv, NEW p \in Peer, NEW s \in Stream
  PROVE  /\ Fragmented(sub[p]) /\ Waiting(waitingList[p][s])
         /\ Carry(sub[p], s, waitingList[p][s])
         /\ Unread(p, s) \in SUBSET Flight(sub[p], s)
         /\ Outbox[p][s] \in Seq(Msg) /\ sent[p][s] \in Nat /\ sent[p][s] <= Len(Outbox[p][s])
         /\ streamReliable[p] \in Seq(Msg)
<1>1. Fragmented(sub[p]) /\ Waiting(waitingList[p][s]) /\ Carry(sub[p], s, waitingList[p][s])
  BY DEF DInv, Sending, Loaded
<1>2. Unread(p, s) \in SUBSET Flight(sub[p], s)
  BY DEF Unread, Untaken
<1>3. Outbox[p][s] \in Seq(Msg)
  BY MessageAssumption
<1>4. sent[p][s] \in Nat /\ sent[p][s] <= Len(Outbox[p][s])
  BY DEF DInv, Histories
<1>5. streamReliable[p] \in Seq(Msg)
  BY DEF DInv, Sending
<1> QED BY <1>1, <1>2, <1>3, <1>4, <1>5

\* What was handled is a part of what was sent.
LEMMA SeenFacts ==
  ASSUME DInv, NEW p \in Peer, NEW s \in Stream, NEW off, LosslessAt(p, s, off)
  PROVE  /\ off[1] \in Nat /\ Seen(p, s, off) \in Nat
         /\ off[1] <= Seen(p, s, off) /\ Seen(p, s, off) <= sent[p][s]
         /\ delivered[Other(p)][s] = SubSeq(Outbox[p][s], 1, Seen(p, s, off))
         /\ Len(delivered[Other(p)][s]) = Seen(p, s, off)
<1> DEFINE list == waitingList[p][s]
           queue == Outbox[p][s]
           n == sent[p][s]
           U == Unread(p, s)
           h == Seen(p, s, off)
<1>1. Waiting(list) /\ queue \in Seq(Msg) /\ n \in Nat /\ n <= Len(queue)
  BY Direction
<1>2. Placed(list, off, queue, Buffered(p, s), n) /\ delivered[Other(p)][s] = Cut(queue, 0, h)
  BY DEF LosslessAt, Conveyed, Seen
<1>3. h = HandledOf(list, off, U)
  BY DEF Seen
<1> HIDE DEF list, queue, n, U, h
<1>4. off[1] \in Nat /\ h \in Nat /\ off[1] <= h /\ h <= n
  BY <1>1, <1>2, <1>3, HandledFacts
<1>5. Len(Cut(queue, 0, h)) = h
  <2>1. 0 \in Nat /\ 0 <= h /\ h <= Len(queue)
    <3>1. Len(queue) \in Nat
      BY <1>1
    <3> QED BY <1>1, <1>4, <3>1
  <2>2. Len(Cut(queue, 0, h)) = h - 0
    BY ONLY <1>1, <1>4, <2>1, CutFacts
  <2> QED BY <1>4, <2>2
<1>6. Cut(queue, 0, h) = SubSeq(queue, 1, h)
  BY DEF Cut
<1> QED BY <1>2, <1>4, <1>5, <1>6 DEF queue, n, h

\* A direction of a stream of which nothing changes.
LEMMA LosslessKept ==
  ASSUME DInv, NEW p \in Peer, NEW s \in Stream, NEW off, LosslessAt(p, s, off),
         sub'[p] = sub[p], outRel'[p] = outRel[p], inRel'[Other(p)] = inRel[Other(p)],
         waitingList'[p][s] = waitingList[p][s],
         receiveList'[Other(p)][s] = receiveList[Other(p)][s],
         Buffered(p, s)' = Buffered(p, s), sent'[p][s] = sent[p][s],
         delivered'[Other(p)][s] = delivered[Other(p)][s]
  PROVE  Onward(p, s, off, off)
<1>1. Unread(p, s)' = Unread(p, s)
  BY DEF Unread
<1>2. Seen(p, s, off)' = Seen(p, s, off)
  BY <1>1 DEF Seen
<1>3. LosslessAt(p, s, off)'
  BY <1>1 DEF LosslessAt
<1>4. Seen(p, s, off) \in Nat
  BY SeenFacts
<1> QED BY <1>2, <1>3, <1>4 DEF Onward

-----------------------------------------------------------------------------
(* Handing data to the channel *)

\* The two streams.
LEMMA StreamsDiffer == NORMAL \in Stream /\ FILE \in Stream /\ NORMAL # FILE
BY DEF NORMAL, FILE, Stream

\* SendNetMsg puts a message behind the others.
LEMMA SendNetMsgOnward ==
  ASSUME DInv, NEW p \in Peer, SendNetMsg(p),
         NEW o \in Peer, NEW s \in Stream, NEW off, LosslessAt(o, s, off)
  PROVE  Onward(o, s, off, off)
<1>1. /\ sent \in [Peer -> [Stream -> Nat]] /\ streamReliable \in [Peer -> Seq(Msg)]
  BY DEF DInv, Histories, Sending
<1>2. UNCHANGED <<headerVars, waitingList, receiveList, delivered>>
  BY DEF SendNetMsg
<1>3. /\ sub' = sub /\ outRel' = outRel /\ inRel' = inRel
      /\ waitingList' = waitingList /\ receiveList' = receiveList /\ delivered' = delivered
  BY <1>2 DEF headerVars
<1>4. CASE o = p /\ s = NORMAL
  <2> DEFINE queue == Outbox[p][NORMAL]
             n == sent[p][NORMAL]
             m == queue[n + 1]
             list == waitingList[p][NORMAL]
             buffered == streamReliable[p]
  <2>1. n < Len(queue)
    BY DEF SendNetMsg
  <2>2. streamReliable' = [streamReliable EXCEPT ![p] = Append(buffered, m)]
    BY DEF SendNetMsg
  <2>3. streamReliable'[p] = Append(buffered, m)
    BY <1>1, <2>2
  <2>4. sent' = [sent EXCEPT ![p] = [sent[p] EXCEPT ![NORMAL] = n + 1]]
    BY DEF SendNetMsg
  <2>5. sent'[p][NORMAL] = n + 1
    BY <1>1, <2>4, StreamsDiffer
  <2>6. Waiting(list) /\ queue \in Seq(Msg) /\ n \in Nat
    BY Direction, StreamsDiffer
  <2>7. /\ Buffered(p, NORMAL) = buffered
        /\ Buffered(p, NORMAL)' = Append(buffered, m)
    BY <2>3 DEF Buffered
  <2>8. Placed(list, off, queue, buffered, n)
    BY <1>4, <2>7 DEF LosslessAt, Conveyed
  <2> HIDE DEF queue, n, list, buffered
  <2>9. Placed(list, off, queue, Append(buffered, m), n + 1)
    BY <2>1, <2>6, <2>8, PlacedBuffered
  <2>10. Unread(p, NORMAL)' = Unread(p, NORMAL)
    BY <1>3 DEF Unread
  <2>11. Seen(p, NORMAL, off)' = Seen(p, NORMAL, off)
    BY <1>3, <2>10 DEF Seen
  <2>12. LosslessAt(p, NORMAL, off)'
    <3>1. Conveyed(sub[p], NORMAL, Unread(p, NORMAL), list, receiveList[Other(p)][NORMAL], off,
                   queue, buffered, n, delivered[Other(p)][NORMAL])
      BY <1>4, <2>7 DEF LosslessAt, list, queue, n
    <3>2. Conveyed(sub[p], NORMAL, Unread(p, NORMAL), list, receiveList[Other(p)][NORMAL], off,
                   queue, Append(buffered, m), n + 1, delivered[Other(p)][NORMAL])
      BY <2>9, <3>1 DEF Conveyed
    <3> QED BY <1>3, <2>5, <2>7, <2>10, <3>2 DEF LosslessAt, list, queue
  <2>13. Seen(p, NORMAL, off) \in Nat
    BY <1>4, SeenFacts
  <2> QED BY <1>4, <2>11, <2>12, <2>13 DEF Onward
<1>5. CASE ~(o = p /\ s = NORMAL)
  <2>1. sent'[o][s] = sent[o][s]
    <3> DEFINE f == [sent[p] EXCEPT ![NORMAL] = sent[p][NORMAL] + 1]
    <3>1. sent' = [sent EXCEPT ![p] = f]
      BY DEF SendNetMsg
    <3>2. s # NORMAL => f[s] = sent[p][s]
      BY <1>1
    <3> HIDE DEF f
    <3> QED BY <1>1, <1>5, <3>1, <3>2
  <2>2. Buffered(o, s)' = Buffered(o, s)
    <3> DEFINE x == Append(streamReliable[p], Outbox[p][NORMAL][sent[p][NORMAL] + 1])
    <3>1. streamReliable' = [streamReliable EXCEPT ![p] = x]
      BY DEF SendNetMsg
    <3> HIDE DEF x
    <3>2. o # p => streamReliable'[o] = streamReliable[o]
      BY <1>1, <3>1
    <3> QED BY <1>5, <3>2 DEF Buffered
  <2> QED BY <1>3, <2>1, <2>2, LosslessKept
<1> QED BY <1>4, <1>5

\* SendFile puts an item behind the others.
LEMMA SendFileOnward ==
  ASSUME DInv, NEW p \in Peer, SendFile(p),
         NEW o \in Peer, NEW s \in Stream, NEW off, LosslessAt(o, s, off)
  PROVE  \E off2 : Onward(o, s, off, off2) /\ off2[1] = off[1]
<1> DEFINE m == Outbox[p][FILE][sent[p][FILE] + 1]
           item == NewItem(<<m>>, Bytes[m], m \in Files)
           list == waitingList[p][FILE]
           list2 == Append(list, item)
<1>1. /\ sent \in [Peer -> [Stream -> Nat]] /\ DOMAIN waitingList = Peer
      /\ DOMAIN waitingList[p] = Stream
  BY DEF DInv, Histories, Sending, Loaded
<1>2. /\ sub' = sub /\ outRel' = outRel /\ inRel' = inRel /\ receiveList' = receiveList
      /\ delivered' = delivered /\ streamReliable' = streamReliable
  BY DEF SendFile, headerVars
<1>3. waitingList' = [waitingList EXCEPT ![p] = [waitingList[p] EXCEPT ![FILE] = list2]]
  BY DEF SendFile
<1>4. /\ waitingList'[p][FILE] = list2
      /\ o # p \/ s # FILE => waitingList'[o][s] = waitingList[o][s]
  <2> HIDE DEF list2
  <2> QED BY <1>1, <1>3, StreamsDiffer
<1>5. /\ sent'[p][FILE] = sent[p][FILE] + 1
      /\ o # p \/ s # FILE => sent'[o][s] = sent[o][s]
  <2> DEFINE k == sent[p][FILE] + 1
  <2>1. sent' = [sent EXCEPT ![p] = [sent[p] EXCEPT ![FILE] = k]]
    BY DEF SendFile
  <2> HIDE DEF k
  <2>2. /\ sent'[p][FILE] = k
        /\ o # p \/ s # FILE => sent'[o][s] = sent[o][s]
    BY <1>1, <2>1, StreamsDiffer
  <2> QED BY <2>2 DEF k
<1>6. Buffered(o, s)' = Buffered(o, s)
  BY <1>2 DEF Buffered
<1>7. CASE o = p /\ s = FILE
  <2> DEFINE queue == Outbox[p][FILE]
             n == sent[p][FILE]
             U == Unread(p, FILE)
             r == receiveList[Other(p)][FILE]
             seen == delivered[Other(p)][FILE]
  <2>1. n < Len(queue)
    BY DEF SendFile
  <2>2. /\ Fragmented(sub[p]) /\ Waiting(list) /\ Carry(sub[p], FILE, list)
        /\ U \in SUBSET Flight(sub[p], FILE) /\ queue \in Seq(Msg) /\ n \in Nat
    BY Direction, StreamsDiffer
  <2>3. Buffered(p, FILE) = <<>> /\ Buffered(p, FILE)' = <<>>
    BY StreamsDiffer DEF Buffered
  <2>4. Conveyed(sub[p], FILE, U, list, r, off, queue, <<>>, n, seen)
    BY <1>7, <2>3 DEF LosslessAt
  <2>5. Placed(list, off, queue, <<>>, n)
    BY <2>4 DEF Conveyed
  <2>6. m = queue[n + 1] /\ m \in Msg
    BY <2>1, <2>2
  <2>7. item \in Item /\ item.acked = 0 /\ item.pending = 0 /\ item.msgs = <<m>>
    <3> DEFINE f == m \in Files
               b == Bytes[m]
               msgs == <<m>>
    <3>1. b \in Nat \ {0} /\ f \in BOOLEAN /\ msgs \in Seq(Msg) \ {<<>>}
      BY <2>6, MessageAssumption
    <3> HIDE DEF f, b, msgs
    <3>2. /\ NewItem(msgs, b, f) \in Item /\ NewItem(msgs, b, f).msgs = msgs
          /\ NewItem(msgs, b, f).acked = 0 /\ NewItem(msgs, b, f).pending = 0
      BY ONLY <3>1, NewItemFields
    <3> QED BY <3>2 DEF f, b, msgs
  <2> HIDE DEF queue, n, U, r, seen, m, item
  <2>8. n <= Len(queue) /\ n + 1 \in Nat /\ n <= n + 1 /\ n + 1 <= Len(queue)
    <3>1. Len(queue) \in Nat
      BY <2>2
    <3> QED BY <2>1, <2>2, <3>1
  <2>9. off[Len(list) + 1] = n
    <3> HIDE DEF list
    <3>1. <<>> = <<>> <=> off[Len(list) + 1] = n
      BY <2>2, <2>5, <2>8, PlacedFacts
    <3> QED BY <3>1
  <2>10. item.msgs = Cut(queue, off[Len(list) + 1], n + 1) /\ off[Len(list) + 1] < n + 1
    <3>1. <<queue[n + 1]>> = Cut(queue, n, n + 1)
      <4>1. n <= n
        BY <2>2
      <4> QED BY <2>1, <2>2, <4>1, CutNext
    <3> QED BY <2>2, <2>6, <2>7, <2>9, <3>1
  <2> HIDE DEF list, list2
  <2>11. PICK off2 : /\ Placed(Append(list, item), off2, queue, <<>>, n + 1)
                     /\ off2[1] = off[1] /\ (list # <<>> => off2[2] = off[2])
    BY <2>2, <2>5, <2>8, <2>10, PlacedItem
  <2>12. /\ Waiting(list2) /\ list2 # <<>>
         /\ list = <<>> => list2[1] = item
         /\ list # <<>> => list2[1] = list[1]
    BY <2>2, <2>7, ItemAppended DEF list2
  <2>13. SentFragments(item) = 0
    BY <2>7 DEF SentFragments
  <2>14. /\ Conveyed(sub[p], FILE, U, list2, r, off2, queue, <<>>, n + 1, seen)
         /\ HandledOf(list2, off2, U) = HandledOf(list, off, U)
    <3>1. Placed(list2, off2, queue, <<>>, n + 1)
      BY <2>11 DEF list2
    <3> DEFINE n2 == n + 1
               none == <<>>
    <3>2. Placed(list2, off2, queue, none, n2) /\ Conveyed(sub[p], FILE, U, list, r, off, queue, none, n, seen)
      BY <2>4, <3>1
    <3>3. HeadStays(list, list2) /\ PlacesStay(list, off, off2)
      BY <2>11, <2>12, <2>13 DEF HeadStays, PlacesStay
    <3> HIDE DEF n2, none
    <3>4. /\ Conveyed(sub[p], FILE, U, list2, r, off2, queue, none, n2, seen)
          /\ HandledOf(list2, off2, U) = HandledOf(list, off, U)
      <4>1. Follows(sub[p], FILE, U, list, r)
        BY <3>2 DEF Conveyed
      <4>2. /\ Follows(sub[p], FILE, U, list2, r)
            /\ HandledOf(list2, off2, U) = HandledOf(list, off, U)
        BY <2>2, <2>12, <3>3, <4>1, StreamsDiffer, FollowsGrown
      <4> QED BY <3>2, <4>2 DEF Conveyed
    <3> QED BY <3>4 DEF n2, none
  <2>15. Unread(p, FILE)' = U
    BY <1>2 DEF Unread, U
  <2>16. Seen(p, FILE, off) = HandledOf(list, off, U) /\ Seen(p, FILE, off2)' = HandledOf(list2, off2, U)
    BY <1>4, <2>15 DEF Seen, list, U
  <2>17. LosslessAt(p, FILE, off2)'
    BY <1>2, <1>4, <1>5, <2>3, <2>14, <2>15 DEF LosslessAt, queue, n, r, seen
  <2>18. Seen(p, FILE, off) \in Nat
    BY <1>7, SeenFacts
  <2> QED BY <1>7, <2>11, <2>14, <2>16, <2>17, <2>18 DEF Onward
<1>8. CASE ~(o = p /\ s = FILE)
  <2>1. Onward(o, s, off, off)
    BY <1>2, <1>4, <1>5, <1>6, <1>8, LosslessKept
  <2> QED BY <2>1
<1> QED BY <1>7, <1>8

\* A choked tick.
LEMMA SetChokedOnward ==
  ASSUME DInv, NEW p \in Peer, SetChoked(p),
         NEW o \in Peer, NEW s \in Stream, NEW off, LosslessAt(o, s, off)
  PROVE  Onward(o, s, off, off)
<1>1. /\ sub' = sub /\ outRel' = outRel /\ inRel' = inRel /\ receiveList' = receiveList
      /\ delivered' = delivered /\ streamReliable' = streamReliable
      /\ waitingList' = waitingList /\ sent' = sent
  BY DEF SetChoked, dataVars
<1>2. Buffered(o, s)' = Buffered(o, s)
  BY <1>1 DEF Buffered
<1> QED BY <1>1, <1>2, LosslessKept

-----------------------------------------------------------------------------
(* SendDatagram *)

\* SendSubChannelData leaves the fragment fields.
LEMMA TransmittedFields ==
  ASSUME NEW p \in Peer, NEW subs, WellFormed(subs), NEW c \in SubChannel
  PROVE  /\ TransmittedSub(p, subs)[c].num = subs[c].num
         /\ TransmittedSub(p, subs)[c].start = subs[c].start
<1>1. CASE InState(subs, "TOSEND") = {}
  BY <1>1 DEF TransmittedSub
<1>2. CASE InState(subs, "TOSEND") # {}
  <2> DEFINE d0 == First(InState(subs, "TOSEND"))
             subs2 == TransmittedSub(p, subs)
  <2>1. d0 \in SubChannel
    BY <1>2, FirstInState
  <2>2. subs2 = [subs EXCEPT ![d0].state = "WAITING", ![d0].seq = outSeq[p]]
    BY <1>2 DEF TransmittedSub
  <2> HIDE DEF d0, subs2
  <2>3. subs2[d0] = [subs[d0] EXCEPT !.state = "WAITING", !.seq = outSeq[p]]
    BY <2>1, <2>2 DEF WellFormed
  <2>4. c # d0 => subs2[c] = subs[c]
    BY <2>1, <2>2 DEF WellFormed
  <2>5. subs2[d0].num = subs[d0].num /\ subs2[d0].start = subs[d0].start
    BY <2>1, <2>3 DEF WellFormed
  <2> QED BY <2>4, <2>5 DEF subs2
<1> QED BY <1>1, <1>2

\* The subchannel that UpdateSubChannels takes is the one more that the other
\* end has not read: its bits agreed as long as it was free.
LEMMA UpdatedUnread ==
  ASSUME IInv, DInv, NEW p \in Peer, NEW s \in Stream, NEW lists,
         NEW take \in [Stream -> 0 .. MaxFragments]
  PROVE  LET subs2 == TransmittedSub(p, UpdatedSub(p, lists, take))
             U == Unread(p, s)
             U2 == Untaken(subs2, UpdatedOutRel(p, take), inRel[Other(p)], s)
         IN  /\ \A c \in SubChannel : sub[p][c].state # "FREE" =>
                  subs2[c].num = sub[p][c].num /\ subs2[c].start = sub[p][c].start
             /\ Allocates(p, take) /\ take[s] > 0 =>
                  \E c0 \in SubChannel : /\ c0 \notin U /\ U2 = U \cup {c0}
                                         /\ subs2[c0].num[s] = take[s]
                                         /\ subs2[c0].start[s] = SentFragments(lists[s][1])
             /\ ~(Allocates(p, take) /\ take[s] > 0) => U2 = U
<1> DEFINE subs1 == UpdatedSub(p, lists, take)
           subs2 == TransmittedSub(p, subs1)
           in == inRel[Other(p)]
           out == outRel[p]
           out2 == UpdatedOutRel(p, take)
           U == Unread(p, s)
           U2 == Untaken(subs2, out2, in, s)
<1>1. /\ WellFormed(sub[p]) /\ outRel[p] \in [SubChannel -> Bit] /\ outSeq[p] \in Nat
      /\ inRel[Other(p)] \in [SubChannel -> Bit]
  BY OtherOther DEF IInv, HeaderTypeOK
<1>2. WellFormed(subs1)
  BY <1>1, UpdatedValues
<1>3. U = {c \in Flight(sub[p], s) : out[c] # in[c]}
  BY DEF Unread, Untaken
<1>4. \A c \in SubChannel : subs2[c].num = subs1[c].num /\ subs2[c].start = subs1[c].start
  BY <1>2, TransmittedFields
<1>5. \A c \in SubChannel : subs2[c].state \in {"TOSEND", "WAITING"}
                               <=> subs1[c].state \in {"TOSEND", "WAITING"}
  <2> DEFINE d0 == Packet(p, subs1, lists).sub
  <2>1. \A c \in SubChannel :
          \/ d0 = c /\ subs1[c].state = "TOSEND" /\ subs2[c].state = "WAITING"
          \/ d0 # c /\ subs2[c] = subs1[c]
    BY <1>1, <1>2, TransmittedValues
  <2> HIDE DEF d0, subs1, subs2
  <2> QED BY <2>1
<1> HIDE DEF subs2
<1>6. U2 = {c \in Flight(subs1, s) : out2[c] # in[c]}
  BY <1>4, <1>5 DEF Untaken, Flight
<1>7. CASE ~Allocates(p, take)
  <2>1. subs1 = sub[p] /\ out2 = out
    BY <1>7 DEF UpdatedSub, UpdatedOutRel
  <2> QED BY <1>3, <1>4, <1>6, <1>7, <2>1 DEF subs2
<1>8. CASE Allocates(p, take)
  <2> DEFINE c0 == First(InState(sub[p], "FREE"))
             start0 == [t \in Stream |-> IF take[t] > 0 THEN SentFragments(lists[t][1]) ELSE -1]
             new == [state |-> "TOSEND", seq |-> 0, num |-> take, start |-> start0]
  <2>1. c0 \in SubChannel /\ sub[p][c0].state = "FREE"
    BY <1>8, FirstInState DEF Allocates
  <2>2. subs1 = [sub[p] EXCEPT ![c0] = new]
    BY <1>8 DEF UpdatedSub
  <2>3. out2 = [out EXCEPT ![c0] = 1 - out[c0]]
    BY <1>8 DEF UpdatedOutRel, Flipped
  <2>4. new.state = "TOSEND" /\ new.num = take
        /\ (take[s] > 0 => new.start[s] = SentFragments(lists[s][1]))
    OBVIOUS
  <2> HIDE DEF c0, start0, new, subs1, out2
  <2>5. subs1[c0] = new /\ \A c \in SubChannel : c # c0 => subs1[c] = sub[p][c]
    BY <1>1, <2>1, <2>2 DEF WellFormed
  <2>6. out2[c0] # in[c0] /\ \A c \in SubChannel : c # c0 => out2[c] = out[c]
    <3>1. out[c0] = in[c0]
      BY <2>1 DEF IInv, BitsAgree, SubChannelInv
    <3>2. out[c0] \in {0, 1}
      BY <1>1, <2>1 DEF Bit
    <3>3. out2[c0] = 1 - out[c0] /\ \A c \in SubChannel : c # c0 => out2[c] = out[c]
      BY <1>1, <2>1, <2>3
    <3> HIDE DEF in, out
    <3> QED BY <3>1, <3>2, <3>3
  <2>7. c0 \notin U
    BY <1>3, <2>1 DEF Flight
  <2> HIDE DEF in, out
  <2>8. CASE take[s] > 0
    <3>1. Flight(subs1, s) = Flight(sub[p], s) \cup {c0}
      BY <2>1, <2>4, <2>5, <2>8 DEF Flight
    <3>2. U2 = U \cup {c0}
      <4> HIDE DEF U, U2
      <4>1. Flight(sub[p], s) \subseteq SubChannel
        BY DEF Flight
      <4>2. \A c : c \in U2 <=> c \in U \/ c = c0
        BY <1>3, <1>6, <2>1, <2>6, <3>1, <4>1
      <4> QED BY <4>2
    <3>3. subs2[c0].num[s] = take[s] /\ subs2[c0].start[s] = SentFragments(lists[s][1])
      BY <1>4, <2>1, <2>4, <2>5, <2>8
    <3>4. \A c \in SubChannel : sub[p][c].state # "FREE" =>
            subs2[c].num = sub[p][c].num /\ subs2[c].start = sub[p][c].start
      BY <1>4, <2>1, <2>5
    <3> HIDE DEF U, U2
    <3>5. \E d \in SubChannel : /\ d \notin U /\ U2 = U \cup {d}
                                /\ subs2[d].num[s] = take[s]
                                /\ subs2[d].start[s] = SentFragments(lists[s][1])
      BY <2>1, <2>7, <3>2, <3>3
    <3>6. (Allocates(p, take) /\ take[s] > 0) = TRUE
      BY <1>8, <2>8
    <3> QED BY <3>4, <3>5, <3>6 DEF U, U2, subs1, subs2, in, out2
  <2>9. CASE ~(take[s] > 0)
    <3>1. Flight(subs1, s) = Flight(sub[p], s)
      <4>1. ~(subs1[c0].num[s] > 0)
        BY <2>4, <2>5, <2>9
      <4>2. \A c \in SubChannel : c \in Flight(subs1, s) <=> c \in Flight(sub[p], s)
        BY <2>1, <2>5, <4>1 DEF Flight
      <4> QED BY <4>2 DEF Flight
    <3>2. U2 = U
      <4> HIDE DEF U, U2
      <4>1. Flight(sub[p], s) \subseteq SubChannel /\ c0 \notin Flight(sub[p], s)
        BY <2>1 DEF Flight
      <4>2. \A c : c \in U2 <=> c \in U
        BY <1>3, <1>6, <2>1, <2>6, <3>1, <4>1
      <4> QED BY <4>2
    <3>4. \A c \in SubChannel : sub[p][c].state # "FREE" =>
            subs2[c].num = sub[p][c].num /\ subs2[c].start = sub[p][c].start
      BY <1>4, <2>1, <2>5
    <3> HIDE DEF U, U2
    <3> QED BY <2>9, <3>2, <3>4 DEF U, U2, subs1, subs2, in, out2
  <2> QED BY <2>8, <2>9
<1> QED BY <1>7, <1>8

\* Flushing what is buffered onto the list, and compressing its head.
LEMMA FlushedConveyed ==
  ASSUME NEW subs, Fragmented(subs), NEW s \in Stream, NEW U \in SUBSET Flight(subs, s),
         NEW list, Waiting(list), Carry(subs, s, list), NEW msgs \in Seq(Msg),
         NEW flushed, flushed = CreateFragments(list, msgs), Carry(subs, s, flushed),
         NEW packed, packed \in CompressFragments(flushed),
         NEW r, NEW off, NEW queue \in Seq(Msg), NEW n \in Nat, n <= Len(queue), NEW seen,
         Conveyed(subs, s, U, list, r, off, queue, msgs, n, seen)
  PROVE  \E off2 : /\ Conveyed(subs, s, U, packed, r, off2, queue, <<>>, n, seen)
                   /\ HandledOf(packed, off2, U) = HandledOf(list, off, U)
                   /\ off2[1] = off[1]
<1> DEFINE none == <<>>
<1>1. Placed(list, off, queue, msgs, n)
  BY DEF Conveyed
<1>2. PICK off2 : Placed(flushed, off2, queue, none, n) /\ PlacesStay(list, off, off2)
  BY <1>1, PlacedCreated DEF PlacesStay
<1>3. Waiting(flushed) /\ HeadStays(list, flushed)
  <2>1. /\ Waiting(CreateFragments(list, msgs))
        /\ list # <<>> => CreateFragments(list, msgs) # <<>> /\ CreateFragments(list, msgs)[1] = list[1]
        /\ list = <<>> /\ CreateFragments(list, msgs) # <<>> =>
             CreateFragments(list, msgs)[1].acked = 0 /\ CreateFragments(list, msgs)[1].pending = 0
    BY FragmentsCreated
  <2>2. /\ Waiting(flushed) /\ (list # <<>> => flushed # <<>> /\ flushed[1] = list[1])
        /\ list = <<>> /\ flushed # <<>> => flushed[1].acked = 0 /\ flushed[1].pending = 0
    BY <2>1
  <2> QED BY ONLY <2>2 DEF HeadStays, SentFragments
<1> HIDE DEF none
<1>5. /\ Waiting(packed) /\ Len(packed) = Len(flushed) /\ (packed = <<>> <=> flushed = <<>>)
      /\ \A i \in 2 .. Len(flushed) : packed[i] = flushed[i]
      /\ flushed # <<>> =>
           /\ packed[1].acked = flushed[1].acked /\ packed[1].pending = flushed[1].pending
           /\ packed[1].msgs = flushed[1].msgs /\ packed[1].file = flushed[1].file
           /\ packed[1].bytes = flushed[1].bytes \/ (flushed[1].acked = 0 /\ flushed[1].pending = 0)
  BY <1>3, FragmentsCompressed
<1>6. HeadStays(flushed, packed)
  <2>1. flushed # <<>> => SentFragments(packed[1]) = SentFragments(flushed[1])
    BY <1>5 DEF SentFragments
  <2>2. flushed # <<>> /\ flushed[1].acked = 0 /\ flushed[1].pending = 0 => SentFragments(flushed[1]) = 0
    BY DEF SentFragments
  <2> QED BY ONLY <1>5, <2>1, <2>2 DEF HeadStays
<1>7. \A i \in 1 .. Len(flushed) : packed[i].msgs = flushed[i].msgs
  <2>1. TAKE i \in 1 .. Len(flushed)
  <2>2. flushed # <<>>
    BY <1>3 DEF Waiting
  <2>3. i = 1 \/ i \in 2 .. Len(flushed)
    BY <1>3 DEF Waiting
  <2> QED BY <1>5, <2>2, <2>3
<1>8. Placed(packed, off2, queue, none, n)
  BY <1>2, <1>5, <1>7, PlacedSame
<1>9. HeadStays(list, packed)
  BY <1>3, <1>6 DEF HeadStays
<1>10. /\ Follows(subs, s, U, packed, r)
       /\ HandledOf(packed, off2, U) = HandledOf(list, off, U)
  <2>1. Follows(subs, s, U, list, r)
    BY DEF Conveyed
  <2>2. PlacesStay(list, off, off2) /\ Waiting(packed)
    BY <1>2, <1>5
  <2>3. /\ Follows(subs, s, U, packed, r)
        /\ (list # <<>> /\ Finished(list[1], U)) <=> (packed # <<>> /\ Finished(packed[1], U))
    BY <1>9, <2>1, <2>2, FollowsUnstarted DEF HeadStays
  <2>4. HandledOf(packed, off2, U) = HandledOf(list, off, U)
    BY ONLY <2>2, <2>3 DEF HandledOf, PlacesStay
  <2> QED BY <2>3, <2>4
<1>11. Conveyed(subs, s, U, packed, r, off2, queue, none, n, seen)
  BY <1>8, <1>10 DEF Conveyed
<1> QED BY <1>2, <1>10, <1>11 DEF none, PlacesStay

\* UpdateSubChannels and SendSubChannelData: the sender's side of a direction.
LEMMA UpdatedConveyed ==
  ASSUME IInv, DInv, NEW p \in Peer, NEW s \in Stream, NEW lists, Loaded(sub[p], lists),
         NEW take \in [Stream -> 0 .. MaxFragments], take[s] <= Unsent(lists[s]),
         NEW subs2, subs2 = TransmittedSub(p, UpdatedSub(p, lists, take)), Fragmented(subs2),
         NEW r, NEW off, NEW queue, NEW buffered, NEW n, NEW seen,
         Conveyed(sub[p], s, Unread(p, s), lists[s], r, off, queue, buffered, n, seen)
  PROVE  LET U2 == Untaken(subs2, UpdatedOutRel(p, take), inRel[Other(p)], s)
             list2 == UpdatedWaiting(p, lists, take)[s]
         IN  /\ Conveyed(subs2, s, U2, list2, r, off, queue, buffered, n, seen)
             /\ HandledOf(list2, off, U2) = HandledOf(lists[s], off, Unread(p, s))
<1> DEFINE U == Unread(p, s)
<1> DEFINE U2 == Untaken(subs2, UpdatedOutRel(p, take), inRel[Other(p)], s)
<1> DEFINE list == lists[s]
<1> DEFINE list2 == UpdatedWaiting(p, lists, take)[s]
<1> DEFINE subs == sub[p]
<1>1. /\ Fragmented(subs) /\ U \in SUBSET Flight(subs, s) /\ U \in SUBSET SubChannel
      /\ Waiting(list) /\ Carry(subs, s, list)
  <2>1. Fragmented(subs) /\ U \in SUBSET Flight(subs, s)
    BY Direction
  <2>2. Flight(subs, s) \subseteq SubChannel
    BY DEF Flight
  <2>3. Waiting(list) /\ Carry(subs, s, list)
    BY DEF Loaded
  <2> HIDE DEF U, list, subs
  <2> QED BY <2>1, <2>2, <2>3
<1>2. /\ \A c \in SubChannel : subs[c].state # "FREE" =>
           subs2[c].num = subs[c].num /\ subs2[c].start = subs[c].start
      /\ Allocates(p, take) /\ take[s] > 0 =>
           \E c0 \in SubChannel : /\ c0 \notin U /\ U2 = U \cup {c0}
                                  /\ subs2[c0].num[s] = take[s]
                                  /\ subs2[c0].start[s] = SentFragments(list[1])
      /\ ~(Allocates(p, take) /\ take[s] > 0) => U2 = U
  BY UpdatedUnread
<1>3. \A c \in U : subs2[c].num = subs[c].num /\ subs2[c].start = subs[c].start
  <2> HIDE DEF U, subs
  <2> QED BY <1>1, <1>2 DEF Flight
<1>4. Conveyed(subs, s, U, list, r, off, queue, buffered, n, seen)
  OBVIOUS
<1>5. CASE Allocates(p, take) /\ take[s] > 0
  <2>1. PICK c0 \in SubChannel : /\ c0 \notin U /\ U2 = U \cup {c0}
                                 /\ subs2[c0].num[s] = take[s]
                                 /\ subs2[c0].start[s] = SentFragments(list[1])
    BY <1>2, <1>5
  <2> DEFINE k == take[s]
  <2>2. k \in Nat /\ k > 0 /\ k <= Unsent(list)
    BY <1>5, SizeAssumption
  <2>3. list2 = [list EXCEPT ![1].pending = @ + k]
    BY <1>5 DEF UpdatedWaiting
  <2> HIDE DEF U, U2, list, list2, subs, k
  <2>4. /\ Unsent(list) \in Nat /\ list # <<>>
        /\ Unsent(list) = NumFragments(list[1].bytes) - SentFragments(list[1])
    BY <1>1, <2>2, UnsentLeft
  <2>5. /\ Waiting(list2) /\ list2 # <<>> /\ Len(list2) = Len(list)
        /\ \A i \in 2 .. Len(list) : list2[i] = list[i]
        /\ list2[1].pending = list[1].pending + k
        /\ list2[1].acked = list[1].acked /\ list2[1].bytes = list[1].bytes
        /\ list2[1].msgs = list[1].msgs /\ list2[1].file = list[1].file
    <3> DEFINE l2 == [list EXCEPT ![1].pending = @ + k]
    <3>1. /\ Waiting(l2) /\ l2 # <<>> /\ Len(l2) = Len(list)
          /\ \A i \in 2 .. Len(list) : l2[i] = list[i]
          /\ l2[1].pending = list[1].pending + k
          /\ l2[1].acked = list[1].acked /\ l2[1].bytes = list[1].bytes
          /\ l2[1].msgs = list[1].msgs /\ l2[1].file = list[1].file
      BY ONLY <1>1, <2>2, <2>4, HeadPending, ZenonT(30)
    <3>2. list2 = l2
      BY <2>3
    <3> HIDE DEF l2
    <3> QED BY ONLY <3>1, <3>2
  <2>6. \A i \in 1 .. Len(list) : list2[i].msgs = list[i].msgs
    <3>1. TAKE i \in 1 .. Len(list)
    <3>2. i = 1 \/ i \in 2 .. Len(list)
      BY <1>1 DEF Waiting
    <3> QED BY <2>5, <3>2
  <2>7. list[1] \in Item
    BY <1>1, <2>4 DEF Waiting
  <2>8. /\ SentFragments(list[1]) + k <= NumFragments(list[1].bytes)
        /\ SentFragments(list2[1]) = SentFragments(list[1]) + k
    <3>1. /\ list[1].acked \in Nat /\ list[1].pending \in Nat
          /\ SentFragments(list[1]) = list[1].acked + list[1].pending
          /\ NumFragments(list[1].bytes) \in Nat
      BY <2>7, ItemFields
    <3>2. SentFragments(list2[1]) = list2[1].acked + list2[1].pending
      BY DEF SentFragments
    <3> QED BY <2>2, <2>4, <2>5, <3>1, <3>2
  <2>9. k = subs2[c0].num[s] /\ k > 0 /\ subs2[c0].start[s] = SentFragments(list[1])
    BY <2>1, <2>2 DEF k
  <2>10. Grows(subs, subs2, s, U, c0, list, list2, k)
    BY <1>1, <1>3, <2>1, <2>4, <2>5, <2>6, <2>8, <2>9 DEF Grows
  <2>11. /\ Conveyed(subs2, s, U \cup {c0}, list2, r, off, queue, buffered, n, seen)
         /\ HandledOf(list2, off, U \cup {c0}) = HandledOf(list, off, U)
    BY ONLY s \in Stream, <1>4, <2>10, ConveyedGains
  <2> QED BY <2>1, <2>11 DEF U, U2, list, list2, subs
<1>6. CASE ~(Allocates(p, take) /\ take[s] > 0)
  <2>1. list2 = list /\ U2 = U
    BY <1>2, <1>6 DEF UpdatedWaiting
  <2> HIDE DEF U, U2, list, list2, subs
  <2>2. /\ Conveyed(subs2, s, U, list, r, off, queue, buffered, n, seen)
        /\ HandledOf(list, off, U) = HandledOf(list, off, U)
    BY ONLY s \in Stream, <1>1, <1>3, <1>4, ConveyedSame
  <2> QED BY <2>1, <2>2 DEF U, U2, list, list2, subs
<1> QED BY <1>5, <1>6

\* SendDatagram moves what is buffered onto the list and some of it on the wire.
LEMMA SendDatagramOnward ==
  ASSUME IInv, DInv, NEW p \in Peer, SendDatagram(p),
         NEW o \in Peer, NEW s \in Stream, NEW off, LosslessAt(o, s, off)
  PROVE  \E off2 : Onward(o, s, off, off2) /\ off2[1] = off[1]
<1> DEFINE flushed == [waitingList[p] EXCEPT ![NORMAL] =
                         CreateFragments(waitingList[p][NORMAL], streamReliable[p])]
<1>1. PICK lists, take :
        /\ \A t \in Stream : Waiting(flushed[t]) /\ lists[t] \in CompressFragments(flushed[t])
        /\ take \in [Stream -> 0 .. MaxFragments]
        /\ \A t \in Stream : take[t] <= Unsent(lists[t])
        /\ Loaded(sub[p], flushed) /\ Loaded(sub[p], lists)
        /\ Loaded(TransmittedSub(p, UpdatedSub(p, lists, take)), UpdatedWaiting(p, lists, take))
        /\ sub' = [sub EXCEPT ![p] = TransmittedSub(p, UpdatedSub(p, lists, take))]
        /\ outRel' = [outRel EXCEPT ![p] = UpdatedOutRel(p, take)]
        /\ waitingList' = [waitingList EXCEPT ![p] = UpdatedWaiting(p, lists, take)]
        /\ streamReliable' = [streamReliable EXCEPT ![p] = <<>>]
        /\ UNCHANGED <<inSeq, inRel, receiveList, historyVars>>
  <2>1. SendDatagram(p)
    OBVIOUS
  <2> QED BY <2>1, SendDatagramData
<1>2. /\ DOMAIN sub = Peer /\ DOMAIN outRel = Peer /\ DOMAIN waitingList = Peer
      /\ DOMAIN streamReliable = Peer /\ DOMAIN waitingList[p] = Stream
  BY DEF IInv, HeaderTypeOK, DInv, Sending, Loaded
<1>3. CASE o # p
  <2>1. /\ sub'[o] = sub[o] /\ outRel'[o] = outRel[o] /\ waitingList'[o] = waitingList[o]
        /\ streamReliable'[o] = streamReliable[o]
    BY <1>1, <1>2, <1>3
  <2>2. /\ inRel'[Other(o)] = inRel[Other(o)] /\ receiveList'[Other(o)][s] = receiveList[Other(o)][s]
        /\ sent'[o][s] = sent[o][s] /\ delivered'[Other(o)][s] = delivered[Other(o)][s]
    BY <1>1 DEF historyVars
  <2>3. Buffered(o, s)' = Buffered(o, s)
    BY <2>1 DEF Buffered
  <2>4. Onward(o, s, off, off)
    BY <2>1, <2>2, <2>3, LosslessKept
  <2> QED BY <2>4
<1>4. CASE o = p
  <2> DEFINE subs == sub[p]
  <2> DEFINE subs2 == TransmittedSub(p, UpdatedSub(p, lists, take))
  <2> DEFINE list == waitingList[p][s]
  <2> DEFINE packed == lists[s]
  <2> DEFINE list2 == UpdatedWaiting(p, lists, take)[s]
  <2> DEFINE U == Unread(p, s)
  <2> DEFINE U2 == Untaken(subs2, UpdatedOutRel(p, take), inRel[Other(p)], s)
  <2> DEFINE r == receiveList[Other(p)][s]
  <2> DEFINE queue == Outbox[p][s]
  <2> DEFINE n == sent[p][s]
  <2> DEFINE seen == delivered[Other(p)][s]
  <2> DEFINE msgs == Buffered(p, s)
  <2> DEFINE none == <<>>
  <2>1. /\ Fragmented(subs) /\ U \in SUBSET Flight(subs, s) /\ Waiting(list) /\ Carry(subs, s, list)
        /\ queue \in Seq(Msg) /\ n \in Nat /\ n <= Len(queue)
    BY Direction
  <2>2. msgs \in Seq(Msg)
    BY Direction DEF Buffered
  <2>3. flushed[s] = CreateFragments(list, msgs)
    <3>1. CASE s = NORMAL
      BY <1>2, <3>1 DEF Buffered
    <3>2. CASE s # NORMAL
      <4>1. msgs = <<>>
        BY <3>2 DEF Buffered
      <4>2. CreateFragments(list, msgs) = list
        BY <4>1 DEF CreateFragments
      <4> QED BY <1>2, <3>2, <4>2
    <3> QED BY <3>1, <3>2
  <2>4. Carry(subs, s, flushed[s]) /\ packed \in CompressFragments(flushed[s])
    BY <1>1 DEF Loaded
  <2>5. Conveyed(subs, s, U, list, r, off, queue, msgs, n, seen)
    BY <1>4 DEF LosslessAt
  <2> DEFINE list1 == flushed[s]
  <2>6. PICK off2 : /\ Conveyed(subs, s, U, packed, r, off2, queue, none, n, seen)
                    /\ HandledOf(packed, off2, U) = HandledOf(list, off, U)
                    /\ off2[1] = off[1]
    <3>1. list1 = CreateFragments(list, msgs) /\ Carry(subs, s, list1)
          /\ packed \in CompressFragments(list1)
      BY <2>3, <2>4
    <3> HIDE DEF flushed, subs, subs2, list, list1, packed, list2, U, U2, r, queue, n, seen, msgs
    <3> QED BY ONLY s \in Stream, <2>1, <2>2, <2>5, <3>1, FlushedConveyed
  <2>7. /\ Conveyed(subs2, s, U2, list2, r, off2, queue, none, n, seen)
        /\ HandledOf(list2, off2, U2) = HandledOf(packed, off2, U)
    <3>1. Loaded(sub[p], lists) /\ take \in [Stream -> 0 .. MaxFragments] /\ take[s] <= Unsent(lists[s])
      BY <1>1
    <3>2. Fragmented(TransmittedSub(p, UpdatedSub(p, lists, take)))
      BY <1>1 DEF Loaded
    <3>3. Conveyed(sub[p], s, Unread(p, s), lists[s], r, off2, queue, none, n, seen)
      BY <2>6
    <3> HIDE DEF flushed, r, queue, n, seen, none
    <3> QED
      BY ONLY IInv, DInv, p \in Peer, s \in Stream, <3>1, <3>2, <3>3, UpdatedConveyed
  <2>8. /\ sub'[p] = subs2 /\ outRel'[p] = UpdatedOutRel(p, take) /\ waitingList'[p][s] = list2
        /\ streamReliable'[p] = <<>> /\ inRel' = inRel /\ receiveList' = receiveList
        /\ sent' = sent /\ delivered' = delivered
    BY <1>1, <1>2 DEF historyVars
  <2>9. Unread(p, s)' = U2 /\ Buffered(p, s)' = none
    BY <2>8 DEF Unread, Buffered
  <2>10. LosslessAt(p, s, off2)' /\ Seen(p, s, off2)' = Seen(p, s, off)
    <3>1. /\ sub[p]' = subs2 /\ waitingList[p][s]' = list2 /\ receiveList[Other(p)][s]' = r
          /\ sent[p][s]' = n /\ delivered[Other(p)][s]' = seen
      BY <2>8
    <3>2. HandledOf(list2, off2, U2) = HandledOf(list, off, U)
      BY <2>6, <2>7
    <3> QED BY <2>7, <2>9, <3>1, <3>2 DEF LosslessAt, Seen
  <2>11. Seen(p, s, off) \in Nat
    BY <1>4, SeenFacts
  <2>12. Onward(p, s, off, off2) /\ off2[1] = off[1]
    BY <2>6, <2>10, <2>11 DEF Onward
  <2> QED BY <1>4, <2>12
<1> QED BY <1>3, <1>4

-----------------------------------------------------------------------------
(* ProcessPacket, the acknowledgements *)

\* What a header acknowledges has been read by the other end: the sender's side
\* of a direction stays, but for a head that is acknowledged as a whole.
LEMMA HeaderConveyed ==
  ASSUME IInv, DInv, NEW p \in Peer, NEW q \in net[p], Fresh(p, q), NoneDirty(p),
         NEW s \in Stream, NEW off, LosslessAt(p, s, off)
  PROVE  \E off2 :
           LET U2 == Untaken(HeaderSub(p, q), HeaderOutRel(p, q), inRel[Other(p)], s)
               list2 == HeaderWaiting(p, q)[s]
           IN  /\ Conveyed(HeaderSub(p, q), s, U2, list2, receiveList[Other(p)][s], off2,
                           Outbox[p][s], Buffered(p, s), sent[p][s], delivered[Other(p)][s])
               /\ HandledOf(list2, off2, U2) = Seen(p, s, off)
               /\ off2[1] \in {off[1], Seen(p, s, off)}
<1> DEFINE subs == sub[p]
<1> DEFINE subs2 == HeaderSub(p, q)
<1> DEFINE A == AckedSubs(p, q)
<1> DEFINE U == Unread(p, s)
<1> DEFINE U2 == Untaken(subs2, HeaderOutRel(p, q), inRel[Other(p)], s)
<1> DEFINE list == waitingList[p][s]
<1> DEFINE r == receiveList[Other(p)][s]
<1> DEFINE queue == Outbox[p][s]
<1> DEFINE buffered == Buffered(p, s)
<1> DEFINE n == sent[p][s]
<1> DEFINE seen == delivered[Other(p)][s]
<1>1. /\ ValidHeader(p, q) /\ WellFormed(subs) /\ outRel[p] \in [SubChannel -> Bit]
      /\ Fragmented(subs) /\ Waiting(list) /\ Carry(subs, s, list)
      /\ U \in SUBSET Flight(subs, s) /\ queue \in Seq(Msg) /\ n \in Nat /\ n <= Len(queue)
  <2>1. ValidHeader(p, q)
    BY FreshIsValid
  <2>2. WellFormed(subs) /\ outRel[p] \in [SubChannel -> Bit]
    BY DEF IInv, HeaderTypeOK
  <2>3. /\ Fragmented(subs) /\ Waiting(list) /\ Carry(subs, s, list)
        /\ U \in SUBSET Flight(subs, s) /\ queue \in Seq(Msg) /\ n \in Nat /\ n <= Len(queue)
    BY Direction
  <2> QED BY <2>1, <2>2, <2>3
<1>2. /\ Fragmented(subs2)
      /\ \A c \in SubChannel :
           /\ c \in A => subs2[c].state = "FREE"
           /\ c \notin A =>
                (subs2[c].state \in {"TOSEND", "WAITING"} <=> subs[c].state \in {"TOSEND", "WAITING"})
           /\ subs2[c].state \in {"TOSEND", "WAITING"} =>
                subs2[c].num = subs[c].num /\ subs2[c].start = subs[c].start
  <2>1. \A c \in SubChannel :
          /\ subs2[c].num \in [Stream -> 0 .. MaxFragments] /\ subs2[c].start \in [Stream -> Int]
          /\ c \in A => subs2[c].state = "FREE"
          /\ c \notin A =>
               (subs2[c].state \in {"TOSEND", "WAITING"} <=> subs[c].state \in {"TOSEND", "WAITING"})
          /\ subs2[c].state \in {"TOSEND", "WAITING"} =>
               subs2[c].num = subs[c].num /\ subs2[c].start = subs[c].start
    BY <1>1, HeaderFragments
  <2> HIDE DEF subs, subs2, A
  <2> QED BY <2>1 DEF Fragmented
<1>3. \A c \in SubChannel : HeaderOutRel(p, q)[c] = outRel[p][c]
  BY DEF HeaderOutRel, NoneDirty
<1>4. A \cap U = {}
  <2>1. SUFFICES ASSUME NEW c \in SubChannel, c \in A, c \in U PROVE FALSE
    BY DEF AckedSubs
  <2>2. Acknowledged(p, q, c) /\ sub[p][c].state = "WAITING"
    BY <2>1 DEF AckedSubs
  <2>3. SubChannelInv(p, c) /\ q \in FreshReply(p)
    BY DEF IInv, BitsAgree, FreshReply
  <2>4. outRel[p][c] = inRel[Other(p)][c]
    BY <2>2, <2>3 DEF SubChannelInv
  <2>5. outRel[p][c] # inRel[Other(p)][c]
    BY <2>1 DEF Unread, Untaken
  <2> QED BY <2>4, <2>5
<1>5. U2 = U
  <2>1. ASSUME NEW c \in SubChannel
        PROVE  c \in Flight(subs2, s) <=> c \in Flight(subs, s) \ A
    <3> HIDE DEF A, subs, subs2
    <3>1. CASE c \in A
      BY <1>2, <3>1 DEF Flight
    <3>2. CASE c \notin A
      BY <1>2, <3>2 DEF Flight
    <3> QED BY <3>1, <3>2
  <2>2. Flight(subs2, s) \subseteq SubChannel /\ Flight(subs, s) \subseteq SubChannel
    BY DEF Flight
  <2>3. \A c : c \in U <=> c \in Flight(subs, s) /\ outRel[p][c] # inRel[Other(p)][c]
    BY DEF Unread, Untaken
  <2>4. \A c : c \in U2 <=> c \in Flight(subs2, s) /\ HeaderOutRel(p, q)[c] # inRel[Other(p)][c]
    BY DEF Untaken
  <2> HIDE DEF A, subs, subs2, U, U2
  <2>5. \A c : c \in U2 <=> c \in U
    BY ONLY <1>3, <1>4, <2>1, <2>2, <2>3, <2>4
  <2> QED BY <2>5
<1>6. \A c \in U : subs2[c].num = subs[c].num /\ subs2[c].start = subs[c].start
  <2>1. U \subseteq Flight(subs2, s)
    BY <1>5 DEF Untaken
  <2> HIDE DEF A, subs, subs2, U, U2
  <2> QED BY <1>2, <2>1 DEF Flight
<1>7. U \in SUBSET Flight(subs2, s)
  BY <1>5 DEF Untaken
<1>8. PICK list2 :
        /\ Waiting(list2) /\ Len(list2) = Len(list) /\ (list2 = <<>> <=> list = <<>>)
        /\ \A i \in 2 .. Len(list) : list2[i] = list[i]
        /\ list # <<>> =>
             /\ list2[1].msgs = list[1].msgs /\ list2[1].file = list[1].file
             /\ list2[1].bytes = list[1].bytes
             /\ list2[1].acked = list[1].acked + AckedFragments(p, q, s)
             /\ SentFragments(list2[1]) = SentFragments(list[1])
             /\ AckedFragments(p, q, s) \in Nat
        /\ Carry(subs2, s, list2)
        /\ HeaderWaiting(p, q)[s] = CheckWaitingList(list2, q.ack)
  <2>1. /\ WellFormed(sub[p]) /\ Fragmented(sub[p]) /\ ValidHeader(p, q)
        /\ list = waitingList[p][s] /\ Waiting(list) /\ Carry(sub[p], s, list)
    BY <1>1
  <2> HIDE DEF list
  <2> QED BY ONLY p \in Peer, s \in Stream, <2>1, HeaderFlight
<1>9. Conveyed(subs, s, U, list, r, off, queue, buffered, n, seen) /\ HandledOf(list, off, U) = Seen(p, s, off)
  BY DEF LosslessAt, Seen
<1> HIDE DEF A, subs, subs2, U, U2, list, r, queue, buffered, n, seen
<1>10. /\ Conveyed(subs2, s, U, list2, r, off, queue, buffered, n, seen)
       /\ HandledOf(list2, off, U) = HandledOf(list, off, U)
  <2>1. \A i \in 1 .. Len(list) : list2[i].msgs = list[i].msgs
    <3>1. TAKE i \in 1 .. Len(list)
    <3>2. list # <<>> /\ (i = 1 \/ i \in 2 .. Len(list))
      BY <1>1 DEF Waiting
    <3> QED BY <1>8, <3>2
  <2>2. list # <<>> =>
          /\ SentFragments(list2[1]) = SentFragments(list[1]) /\ list2[1].bytes = list[1].bytes
          /\ list2[1].msgs = list[1].msgs /\ list2[1].file = list[1].file
    BY <1>8
  <2>3. Len(list2) = Len(list) /\ (list = <<>> <=> list2 = <<>>)
    BY <1>8
  <2>4. Fragmented(subs) /\ U \in SUBSET Flight(subs, s)
    BY <1>1
  <2> QED BY ONLY s \in Stream, <1>6, <1>9, <2>1, <2>2, <2>3, <2>4, ConveyedSame
<1> DEFINE list3 == CheckWaitingList(list2, q.ack)
<1>11. PICK off2 : /\ Conveyed(subs2, s, U, list3, r, off2, queue, buffered, n, seen)
                   /\ HandledOf(list3, off2, U) = HandledOf(list2, off, U)
                   /\ off2[1] \in {off[1], HandledOf(list2, off, U)}
  <2>1. CASE list2 # <<>> /\ q.ack > 0 /\ list2[1].acked = NumFragments(list2[1].bytes)
    <3>1. list3 = Tail(list2)
      BY <2>1 DEF CheckWaitingList
    <3>2. Waiting(list2) /\ Carry(subs2, s, list2)
      BY <1>8
    <3> HIDE DEF list3
    <3>3. \E off2 : /\ Conveyed(subs2, s, U, Tail(list2), r, off2, queue, buffered, n, seen)
                    /\ off2[1] = HandledOf(list2, off, U)
                    /\ HandledOf(Tail(list2), off2, U) = HandledOf(list2, off, U)
      <4>1. Fragmented(subs2) /\ U \in SUBSET Flight(subs2, s)
        BY <1>2, <1>7
      <4>2. list2 # <<>> /\ list2[1].acked = NumFragments(list2[1].bytes)
        BY <2>1
      <4>3. queue \in Seq(Msg) /\ n \in Nat /\ n <= Len(queue)
        BY <1>1
      <4>4. Conveyed(subs2, s, U, list2, r, off, queue, buffered, n, seen)
        BY <1>10
      <4> QED BY ONLY s \in Stream, <3>2, <4>1, <4>2, <4>3, <4>4, ConveyedRemoved
    <3> QED BY <3>1, <3>3
  <2>2. CASE ~(list2 # <<>> /\ q.ack > 0 /\ list2[1].acked = NumFragments(list2[1].bytes))
    <3>1. list3 = list2
      BY <2>2 DEF CheckWaitingList
    <3> QED BY <1>10, <3>1
  <2> QED BY <2>1, <2>2
<1>12. HeaderWaiting(p, q)[s] = list3
  BY <1>8
<1> HIDE DEF list3
<1>13. /\ Conveyed(subs2, s, U2, list3, r, off2, queue, buffered, n, seen)
       /\ HandledOf(list3, off2, U2) = Seen(p, s, off)
       /\ off2[1] \in {off[1], Seen(p, s, off)}
  BY <1>5, <1>9, <1>10, <1>11
<1> QED BY <1>12, <1>13 DEF subs2, U2, r, queue, buffered, n, seen

-----------------------------------------------------------------------------
(* ProcessPacket, the data *)

\* A datagram not overtaken carries a subchannel the other end has on the wire
\* and this end has not read.
LEMMA CarriedData ==
  ASSUME IInv, DInv, NEW p \in Peer, NEW q \in net[p], Fresh(p, q), q.sub # NoSub,
         NEW o, o = Other(p), NoneDirty(o), DataFresh(o)
  PROVE  /\ q.sub \in SubChannel /\ outRel[o][q.sub] # inRel[p][q.sub]
         /\ \A s \in Stream :
              /\ q.sub \in Flight(sub[o], s) =>
                   /\ q.sub \in Unread(o, s) /\ Carries(q, s)
                   /\ q.data[s] = StreamData(sub[o][q.sub], waitingList[o][s], s)
                   /\ Piece(q.data[s])
              /\ q.sub \notin Flight(sub[o], s) => ~Carries(q, s)
<1> DEFINE c == q.sub
<1>1. o \in Peer /\ Other(o) = p
  BY OtherOther
<1>2. c \in SubChannel
  BY DEF IInv, HeaderTypeOK
<1>3. /\ sub[o][c].state \in {"WAITING", "DIRTY"} /\ outRel[o][c] # inRel[p][c]
  <2>1. SubChannelInv(o, c)
    BY <1>1, <1>2 DEF IInv, BitsAgree
  <2>2. q \in FreshData(o, c)
    BY <1>1 DEF FreshData
  <2> QED BY <1>1, <2>1, <2>2 DEF SubChannelInv
<1>4. sub[o][c].state = "WAITING"
  BY <1>2, <1>3 DEF NoneDirty
<1>5. \A s \in Stream : q.data[s] = StreamData(sub[o][c], waitingList[o][s], s)
  BY <1>1 DEF DataFresh
<1>6. ASSUME NEW s \in Stream
      PROVE  /\ c \in Flight(sub[o], s) =>
                  /\ c \in Unread(o, s) /\ Carries(q, s)
                  /\ q.data[s] = StreamData(sub[o][c], waitingList[o][s], s)
                  /\ Piece(q.data[s])
             /\ c \notin Flight(sub[o], s) => ~Carries(q, s)
  <2>1. /\ Fragmented(sub[o]) /\ Waiting(waitingList[o][s]) /\ Carry(sub[o], s, waitingList[o][s])
    BY <1>1, Direction
  <2> DEFINE d == StreamData(sub[o][c], waitingList[o][s], s)
  <2>2. q.data[s] = d
    BY <1>5
  <2>3. CASE c \in Flight(sub[o], s)
    <3>1. Piece(d)
      <4> DEFINE subs == sub[o]
      <4> DEFINE list == waitingList[o][s]
      <4>1. Fragmented(subs) /\ Waiting(list) /\ Carry(subs, s, list) /\ c \in Flight(subs, s)
        BY <2>1, <2>3
      <4> HIDE DEF subs, list, c
      <4>2. Piece(StreamData(subs[c], list, s))
        BY ONLY s \in Stream, <4>1, CarriedPiece
      <4> QED BY <4>2 DEF subs, list, c
    <3>2. d # NoData
      <4> HIDE DEF d
      <4> QED BY <3>1, NotEmpty
    <3>3. c \in Unread(o, s)
      BY <1>1, <1>3, <2>3 DEF Unread, Untaken
    <3> QED BY <2>2, <2>3, <3>1, <3>2, <3>3 DEF Carries
  <2>4. CASE c \notin Flight(sub[o], s)
    <3>1. sub[o][c].num[s] \in Nat /\ ~(sub[o][c].num[s] > 0)
      BY <1>2, <1>4, <2>1, <2>4, SizeAssumption DEF Flight, Fragmented
    <3>2. sub[o][c].num[s] = 0
      BY <3>1
    <3> QED BY <2>2, <2>4, <3>2 DEF StreamData, Carries
  <2> QED BY <2>3, <2>4
<1> QED BY <1>2, <1>3, <1>6

\* What the read loop makes of a stream it can read.
LEMMA ReadConveyed ==
  ASSUME IInv, DInv, NEW p \in Peer, NEW q \in net[p], Fresh(p, q), q.sub # NoSub,
         NEW o, o = Other(p), NoneDirty(o), DataFresh(o),
         NEW s \in Stream, NEW off, LosslessAt(o, s, off), ~ReadFails(p, q, s),
         NEW r2, r2 = IF Carries(q, s) THEN ReadData(receiveList[p][s], q.data[s])
                      ELSE receiveList[p][s]
  PROVE  LET U2 == Unread(o, s) \ {q.sub}
             C(r, seen) == Conveyed(sub[o], s, U2, waitingList[o][s], r, off, Outbox[o][s],
                                    Buffered(o, s), sent[o][s], seen)
         IN  /\ ~Overfull(r2) /\ (Complete(r2) => Intact(r2))
             /\ Seen(o, s, off) <= HandledOf(waitingList[o][s], off, U2)
             /\ Complete(r2) => C(NoBuffer, delivered[p][s] \o r2.item)
             /\ ~Complete(r2) => C(r2, delivered[p][s])
<1> DEFINE c == q.sub
<1> DEFINE subs == sub[o]
<1> DEFINE U == Unread(o, s)
<1> DEFINE list == waitingList[o][s]
<1> DEFINE r == receiveList[p][s]
<1> DEFINE queue == Outbox[o][s]
<1> DEFINE buffered == Buffered(o, s)
<1> DEFINE n == sent[o][s]
<1> DEFINE seen == delivered[p][s]
<1>1. o \in Peer /\ Other(o) = p
  BY OtherOther
<1>2. /\ Fragmented(subs) /\ U \in SUBSET Flight(subs, s) /\ Waiting(list) /\ Carry(subs, s, list)
      /\ queue \in Seq(Msg) /\ n \in Nat /\ n <= Len(queue)
  BY <1>1, Direction
<1>3. Conveyed(subs, s, U, list, r, off, queue, buffered, n, seen)
  BY <1>1 DEF LosslessAt
<1>4. Seen(o, s, off) = HandledOf(list, off, U) /\ HandledOf(list, off, U) \in Nat
  BY <1>1, SeenFacts DEF Seen
<1>5. /\ c \in Flight(subs, s) =>
           c \in U /\ Carries(q, s) /\ q.data[s] = StreamData(subs[c], list, s)
      /\ c \notin Flight(subs, s) => ~Carries(q, s)
  BY CarriedData
<1>6. CASE c \in Flight(subs, s)
  <2>1. CanRead(r, q.data[s])
    BY <1>5, <1>6 DEF ReadFails
  <2>2. c \in U /\ CanRead(r, StreamData(subs[c], list, s)) /\ r2 = ReadData(r, StreamData(subs[c], list, s))
    BY <1>5, <1>6, <2>1
  <2> HIDE DEF c, subs, U, list, r, queue, buffered, n, seen
  <2> DEFINE r3 == ReadData(r, StreamData(subs[c], list, s))
  <2>3. /\ ~Overfull(r3) /\ (Complete(r3) => Intact(r3))
        /\ HandledOf(list, off, U) <= HandledOf(list, off, U \ {c})
        /\ Complete(r3) =>
             Conveyed(subs, s, U \ {c}, list, NoBuffer, off, queue, buffered, n, seen \o r3.item)
        /\ ~Complete(r3) =>
             Conveyed(subs, s, U \ {c}, list, r3, off, queue, buffered, n, seen)
    BY ONLY s \in Stream, <1>2, <1>3, <2>2, ConveyedTaken
  <2>4. r2 = r3
    BY <2>2
  <2> HIDE DEF r3
  <2> QED BY <1>4, <2>3, <2>4 DEF c, subs, U, list, queue, buffered, n, seen
<1>7. CASE c \notin Flight(subs, s)
  <2>1. r2 = r
    BY <1>5, <1>7
  <2>2. U \ {c} = U
    BY <1>2, <1>7
  <2> HIDE DEF c, subs, U, list, r, queue, buffered, n, seen
  <2>3. Follows(subs, s, U, list, r)
    BY <1>3 DEF Conveyed
  <2>4. ~Complete(r) /\ ~Overfull(r)
    BY ONLY s \in Stream, <1>2, <2>3, ConveyedIncomplete
  <2> QED BY <1>3, <1>4, <2>1, <2>2, <2>4 DEF c, subs, U, list, queue, buffered, n, seen
<1> QED BY <1>6, <1>7

\* A stream that has no messages is not carried.
LEMMA EmptyNotCarried ==
  ASSUME IInv, DInv, CInv, NEW p \in Peer, NEW q \in net[p], Fresh(p, q), q.sub # NoSub,
         NEW s \in Stream, Outbox[Other(p)][s] = <<>>
  PROVE  ~Carries(q, s)
<1> DEFINE o == Other(p)
<1> DEFINE list == waitingList[o][s]
<1>1. o \in Peer
  BY OtherOther
<1>2. NoneDirty(o) /\ DataFresh(o) /\ \E off : LosslessAt(o, s, off)
  BY <1>1 DEF CInv
<1>3. PICK off : LosslessAt(o, s, off)
  BY <1>2
<1>4. Waiting(list) /\ sent[o][s] \in Nat /\ sent[o][s] <= Len(Outbox[o][s]) /\ Outbox[o][s] \in Seq(Msg)
      /\ Carry(sub[o], s, list)
  BY <1>1, Direction
<1>5. Placed(list, off, Outbox[o][s], Buffered(o, s), sent[o][s])
  BY <1>3 DEF LosslessAt, Conveyed
<1> DEFINE queue == Outbox[o][s]
<1> DEFINE buffered == Buffered(o, s)
<1> DEFINE n == sent[o][s]
<1>6. list = <<>>
  <2>1. queue = <<>>
    OBVIOUS
  <2> HIDE DEF list, queue, buffered, n
  <2> QED BY ONLY <1>4, <1>5, <2>1, ConveyedEmpty DEF list, queue, buffered, n
<1>7. q.sub \notin Flight(sub[o], s)
  BY <1>4, <1>6 DEF Carry
<1> QED BY <1>2, <1>7, CarriedData

\* What becomes of the packet: no handler stops, and a packet of which a stream
\* cannot be read changes no buffer, its other stream having nothing in it.
LEMMA PacketOutcome ==
  ASSUME IInv, DInv, CInv, Steady, NEW p \in Peer, NEW q \in net[p], Fresh(p, q),
         NEW taken, NEW lists, NEW outcomes, NEW cleared,
         PacketEffect(p, q, taken, lists, outcomes, cleared)
  PROVE  /\ taken \in BOOLEAN /\ ~cleared /\ (taken => q.sub # NoSub)
         /\ \A s \in Stream :
              LET r == receiveList[p][s]
                  r2 == IF Carries(q, s) THEN ReadData(r, q.data[s]) ELSE r
              IN  /\ taken =>
                       /\ ~ReadFails(p, q, s)
                       /\ receiveList'[p][s] = IF Complete(r2) THEN NoBuffer ELSE r2
                       /\ delivered'[p][s] = IF Complete(r2) THEN delivered[p][s] \o r2.item
                                             ELSE delivered[p][s]
                  /\ ~taken => receiveList'[p][s] = r /\ delivered'[p][s] = delivered[p][s]
<1> DEFINE o == Other(p)
<1> DEFINE Read(s) == IF Carries(q, s) THEN ReadData(receiveList[p][s], q.data[s])
                      ELSE receiveList[p][s]
<1>1. /\ taken = (q.sub # NoSub /\ ReadsAll(p, q))
      /\ lists = IF q.sub # NoSub THEN ReadLists(p, q) ELSE receiveList[p]
      /\ \A s \in Stream : outcomes[s] \in Results(taken, lists[s])
      /\ cleared = (taken /\ Clears(lists, outcomes))
      /\ receiveList' = [receiveList EXCEPT ![p] = IF taken THEN CheckedLists(lists, outcomes) ELSE lists]
      /\ delivered' = [delivered EXCEPT ![p] =
                         [s \in Stream |-> IF taken /\ Processes(lists, outcomes, s)
                                           THEN delivered[p][s] \o Handled(lists[s])
                                           ELSE delivered[p][s]]]
  BY DEF PacketEffect
<1>2. /\ o \in Peer /\ NoneDirty(o) /\ DataFresh(o)
      /\ \A s \in Stream : \E off : LosslessAt(o, s, off)
  BY OtherOther DEF CInv
<1>3. /\ DOMAIN receiveList = Peer /\ DOMAIN delivered = Peer /\ Buffers(receiveList[p]) /\ Pieces(q)
  BY DEF DInv, Receiving, Histories
<1>4. /\ receiveList'[p] = IF taken THEN CheckedLists(lists, outcomes) ELSE lists
      /\ \A s \in Stream : delivered'[p][s] = IF taken /\ Processes(lists, outcomes, s)
                                              THEN delivered[p][s] \o Handled(lists[s])
                                              ELSE delivered[p][s]
  BY <1>1, <1>3
<1>5. CASE taken
  <2>1. q.sub # NoSub /\ \A s \in Stream : ~ReadFails(p, q, s)
    BY <1>1, <1>5 DEF ReadsAll
  <2>2. \A s \in Stream : lists[s] = Read(s)
    BY <1>1, <2>1 DEF ReadLists
  <2>3. ASSUME NEW s \in Stream
        PROVE  ~Overfull(lists[s]) /\ (Complete(lists[s]) => Intact(lists[s]))
    <3>1. PICK off : LosslessAt(o, s, off)
      BY <1>2
    <3>2. lists[s] = IF Carries(q, s) THEN ReadData(receiveList[p][s], q.data[s])
                     ELSE receiveList[p][s]
      BY <2>2
    <3> DEFINE r2 == lists[s]
    <3> HIDE DEF r2
    <3>3. r2 = IF Carries(q, s) THEN ReadData(receiveList[p][s], q.data[s]) ELSE receiveList[p][s]
      BY <3>2 DEF r2
    <3>4. ~Overfull(r2) /\ (Complete(r2) => Intact(r2))
      BY <1>2, <2>1, <3>1, <3>3, ReadConveyed
    <3> QED BY <3>4 DEF r2
  <2>4. ASSUME NEW s \in Stream, Complete(lists[s])
        PROVE  outcomes[s] = "ok" /\ Handled(lists[s]) = lists[s].item
    <3>1. Stoppers(lists[s]) = {} /\ Intact(lists[s])
      BY <2>3, <2>4 DEF Stoppers, Steady
    <3>2. outcomes[s] \in Outcomes(lists[s])
      BY <1>1, <1>5 DEF Results
    <3> QED BY <3>1, <3>2 DEF Outcomes, Handled
  <2>5. \A s \in Stream : ~Stops(lists[s], outcomes[s])
    BY <2>3, <2>4 DEF Stops
  <2>6. \A s \in Stream : Processes(lists, outcomes, s) <=> Complete(lists[s])
    BY <2>5 DEF Processes, Checked
  <2>7. ~Clears(lists, outcomes)
    BY <2>4, <2>6 DEF Clears
  <2>8. \A s \in Stream : CheckedLists(lists, outcomes)[s] =
                            IF Complete(lists[s]) THEN NoBuffer ELSE lists[s]
    BY <2>4, <2>6, <2>7 DEF CheckedLists
  <2>9. \A s \in Stream :
          /\ receiveList'[p][s] = IF Complete(lists[s]) THEN NoBuffer ELSE lists[s]
          /\ delivered'[p][s] = IF Complete(lists[s]) THEN delivered[p][s] \o lists[s].item
                                ELSE delivered[p][s]
    BY <1>4, <1>5, <2>4, <2>6, <2>8
  <2> HIDE DEF Read
  <2>10. \A s \in Stream :
          /\ receiveList'[p][s] = IF Complete(Read(s)) THEN NoBuffer ELSE Read(s)
          /\ delivered'[p][s] = IF Complete(Read(s)) THEN delivered[p][s] \o Read(s).item
                                ELSE delivered[p][s]
    BY <2>2, <2>9
  <2>11. taken \in BOOLEAN /\ ~cleared
    BY <1>1, <2>7
  <2> QED BY <1>5, <2>1, <2>10, <2>11 DEF Read
<1>6. CASE ~taken
  <2>1. taken \in BOOLEAN /\ ~cleared
    BY <1>1, <1>6
  <2>2. ASSUME NEW s \in Stream PROVE lists[s] = receiveList[p][s]
    <3>1. CASE q.sub = NoSub
      BY <1>1, <3>1
    <3>2. CASE q.sub # NoSub
      <4>1. PICK t \in Stream : ReadFails(p, q, t)
        BY <1>1, <1>6, <3>2 DEF ReadsAll
      <4>2. PICK e \in Stream : Outbox[o][e] = <<>>
        BY <1>2 DEF Steady
      <4>3. ~Carries(q, e)
        BY <3>2, <4>2, EmptyNotCarried
      <4>4. lists = ReadLists(p, q)
        BY <1>1, <3>2
      <4>5. CASE s = e
        BY <4>3, <4>4, <4>5 DEF ReadLists
      <4>6. CASE s # e
        <5>1. t # e
          BY <4>1, <4>3 DEF ReadFails
        <5>2. s = t
          BY <4>6, <5>1 DEF Stream
        <5> DEFINE r == receiveList[p][s]
        <5> DEFINE d == q.data[s]
        <5>3. ~CanRead(r, d) /\ d # NoData
          BY <4>1, <5>2 DEF ReadFails, Carries
        <5>4. (r = NoBuffer \/ Allocated(r)) /\ Piece(d)
          BY <1>3, <5>3 DEF Buffers, Pieces
        <5>5. lists[s] = r \/ lists[s] = ReadData(r, d)
          BY <4>4 DEF ReadLists
        <5> HIDE DEF r, d
        <5>6. ReadData(r, d) = r
          BY <5>3, <5>4, BufferRead
        <5> QED BY <5>5, <5>6 DEF r
      <4> QED BY <4>5, <4>6
    <3> QED BY <3>1, <3>2
  <2>3. \A s \in Stream : receiveList'[p][s] = receiveList[p][s] /\ delivered'[p][s] = delivered[p][s]
    BY <1>4, <1>6, <2>2
  <2> QED BY <1>6, <2>1, <2>3
<1> QED BY <1>5, <1>6

\* What the packet changes on the sender's side is the header's doing.
LEMMA HeaderStep ==
  ASSUME IInv, DInv, CInv, Steady, NEW p \in Peer, NEW q \in net[p], Fresh(p, q),
         NEW taken, NEW lists, NEW outcomes, NEW cleared,
         PacketEffect(p, q, taken, lists, outcomes, cleared)
  PROVE  /\ sub' = [sub EXCEPT ![p] = HeaderSub(p, q)]
         /\ outRel' = [outRel EXCEPT ![p] = HeaderOutRel(p, q)]
         /\ waitingList' = [waitingList EXCEPT ![p] = HeaderWaiting(p, q)]
         /\ streamReliable' = streamReliable
         /\ inRel' = [inRel EXCEPT ![p] = IF taken THEN Flipped(inRel[p], q.sub) ELSE inRel[p]]
         /\ inSeq' = [inSeq EXCEPT ![p] = q.seq]
         /\ net' = [net EXCEPT ![p] = Duplicable(net[p], q)]
         /\ sent' = sent
<1>1. ~cleared
  BY PacketOutcome
<1>2. /\ sub' = [sub EXCEPT ![p] = IF cleared THEN ClearedSub(HeaderSub(p, q)) ELSE HeaderSub(p, q)]
      /\ outRel' = [outRel EXCEPT ![p] =
                      IF cleared THEN ClearedOutRel(HeaderSub(p, q), HeaderOutRel(p, q))
                      ELSE HeaderOutRel(p, q)]
      /\ waitingList' = [waitingList EXCEPT ![p] = IF cleared THEN [t \in Stream |-> <<>>]
                                                   ELSE HeaderWaiting(p, q)]
      /\ streamReliable' = [streamReliable EXCEPT ![p] = IF cleared THEN <<>> ELSE streamReliable[p]]
  BY Zenon DEF PacketEffect
<1>3. /\ inRel' = [inRel EXCEPT ![p] = IF taken THEN Flipped(inRel[p], q.sub) ELSE inRel[p]]
      /\ inSeq' = [inSeq EXCEPT ![p] = q.seq]
      /\ net' = [net EXCEPT ![p] = Duplicable(net[p], q)]
      /\ UNCHANGED sent
  BY DEF PacketEffect
<1>4. /\ sub' = [sub EXCEPT ![p] = HeaderSub(p, q)]
      /\ outRel' = [outRel EXCEPT ![p] = HeaderOutRel(p, q)]
  BY ONLY <1>1, <1>2
<1>5. /\ waitingList' = [waitingList EXCEPT ![p] = HeaderWaiting(p, q)]
      /\ streamReliable' = [streamReliable EXCEPT ![p] = streamReliable[p]]
  BY ONLY <1>1, <1>2
<1>6. streamReliable \in [Peer -> Seq(Msg)]
  BY DEF DInv, Sending
<1>7. streamReliable' = streamReliable
  BY <1>5, <1>6
<1> QED BY <1>3, <1>4, <1>5, <1>7

\* ProcessPacket, for the direction it acknowledges and the one it reads.
LEMMA ProcessPacketOnward ==
  ASSUME IInv, DInv, CInv, Steady, NEW p \in Peer, NEW q \in net[p], ProcessPacket(p, q),
         NEW o \in Peer, NEW s \in Stream, NEW off, LosslessAt(o, s, off)
  PROVE  \E off2 : Onward(o, s, off, off2)
<1>1. Fresh(p, q)
  BY DEF ProcessPacket
<1>2. ValidHeader(p, q)
  BY <1>1, FreshIsValid
<1>3. PICK taken, lists, outcomes, cleared : PacketEffect(p, q, taken, lists, outcomes, cleared)
  BY <1>2, ProcessPacketData
<1> DEFINE r == receiveList[p][s]
<1> DEFINE r2 == IF Carries(q, s) THEN ReadData(r, q.data[s]) ELSE r
<1>4. /\ taken \in BOOLEAN /\ ~cleared /\ (taken => q.sub # NoSub)
      /\ taken =>
           /\ ~ReadFails(p, q, s)
           /\ receiveList'[p][s] = IF Complete(r2) THEN NoBuffer ELSE r2
           /\ delivered'[p][s] = IF Complete(r2) THEN delivered[p][s] \o r2.item
                                 ELSE delivered[p][s]
      /\ ~taken => receiveList'[p][s] = r /\ delivered'[p][s] = delivered[p][s]
  BY <1>1, <1>3, PacketOutcome
<1>5. /\ DOMAIN sub = Peer /\ DOMAIN outRel = Peer /\ DOMAIN inRel = Peer /\ DOMAIN waitingList = Peer
      /\ DOMAIN receiveList = Peer /\ DOMAIN delivered = Peer /\ DOMAIN streamReliable = Peer
      /\ inRel[p] \in [SubChannel -> Bit] /\ outRel[Other(p)] \in [SubChannel -> Bit]
      /\ Other(p) \in Peer
  BY OtherOther DEF IInv, HeaderTypeOK, DInv, Sending, Receiving, Histories
<1>6. /\ sub' = [sub EXCEPT ![p] = HeaderSub(p, q)]
      /\ outRel' = [outRel EXCEPT ![p] = HeaderOutRel(p, q)]
      /\ waitingList' = [waitingList EXCEPT ![p] = HeaderWaiting(p, q)]
      /\ streamReliable' = streamReliable
      /\ inRel' = [inRel EXCEPT ![p] = IF taken THEN Flipped(inRel[p], q.sub) ELSE inRel[p]]
      /\ sent' = sent
  BY <1>1, <1>3, HeaderStep
<1>7. \A t \in Peer : t # p => receiveList'[t] = receiveList[t] /\ delivered'[t] = delivered[t]
  <2> DEFINE lists2 == IF taken THEN CheckedLists(lists, outcomes) ELSE lists
  <2> DEFINE seen2 == [t \in Stream |-> IF taken /\ Processes(lists, outcomes, t)
                                        THEN delivered[p][t] \o Handled(lists[t])
                                        ELSE delivered[p][t]]
  <2>1. receiveList' = [receiveList EXCEPT ![p] = lists2] /\ delivered' = [delivered EXCEPT ![p] = seen2]
    BY <1>3 DEF PacketEffect
  <2> HIDE DEF lists2, seen2
  <2> QED BY <1>5, <2>1
<1>8. CASE o = p
  <2>1. NoneDirty(p)
    BY DEF CInv
  <2> DEFINE U2 == Untaken(HeaderSub(p, q), HeaderOutRel(p, q), inRel[Other(p)], s)
  <2> DEFINE list2 == HeaderWaiting(p, q)[s]
  <2>2. PICK off2 :
          /\ Conveyed(HeaderSub(p, q), s, U2, list2, receiveList[Other(p)][s], off2,
                      Outbox[p][s], Buffered(p, s), sent[p][s], delivered[Other(p)][s])
          /\ HandledOf(list2, off2, U2) = Seen(p, s, off)
          /\ off2[1] \in {off[1], Seen(p, s, off)}
    BY <1>1, <1>8, <2>1, HeaderConveyed
  <2>3. /\ sub'[p] = HeaderSub(p, q) /\ outRel'[p] = HeaderOutRel(p, q) /\ waitingList'[p][s] = list2
        /\ inRel'[Other(p)] = inRel[Other(p)] /\ receiveList'[Other(p)] = receiveList[Other(p)]
        /\ delivered'[Other(p)] = delivered[Other(p)] /\ sent' = sent
    BY <1>5, <1>6, <1>7, OtherOther
  <2>4. Unread(p, s)' = U2 /\ Buffered(p, s)' = Buffered(p, s)
    BY <1>6, <2>3 DEF Unread, Buffered
  <2> HIDE DEF U2, list2
  <2>5. LosslessAt(p, s, off2)' /\ Seen(p, s, off2)' = Seen(p, s, off)
    BY <2>2, <2>3, <2>4 DEF LosslessAt, Seen
  <2>6. Seen(p, s, off) \in Nat
    BY <1>8, SeenFacts
  <2>7. Onward(p, s, off, off2)
    BY <2>2, <2>5, <2>6 DEF Onward
  <2> QED BY <1>8, <2>7
<1>9. CASE o # p
  <2>1. o = Other(p) /\ Other(o) = p
    BY <1>9, OtherOther DEF Peer, Other
  <2>2. /\ sub'[o] = sub[o] /\ outRel'[o] = outRel[o] /\ waitingList'[o] = waitingList[o]
        /\ sent' = sent /\ inRel'[p] = IF taken THEN Flipped(inRel[p], q.sub) ELSE inRel[p]
    BY <1>5, <1>6, <1>9
  <2>3. Buffered(o, s)' = Buffered(o, s)
    BY <1>6 DEF Buffered
  <2>4. CASE ~taken
    <3>1. /\ inRel'[Other(o)] = inRel[Other(o)] /\ receiveList'[Other(o)][s] = receiveList[Other(o)][s]
          /\ delivered'[Other(o)][s] = delivered[Other(o)][s] /\ sent'[o][s] = sent[o][s]
          /\ waitingList'[o][s] = waitingList[o][s]
      BY <1>4, <2>1, <2>2, <2>4
    <3> QED BY <2>2, <2>3, <3>1, LosslessKept
  <2>5. CASE taken
    <3> DEFINE U2 == Unread(o, s) \ {q.sub}
    <3>1. q.sub # NoSub /\ ~ReadFails(p, q, s) /\ NoneDirty(o) /\ DataFresh(o)
      BY <1>4, <2>5 DEF CInv
    <3>2. q.sub \in SubChannel /\ outRel[o][q.sub] # inRel[p][q.sub]
      BY <1>1, <2>1, <3>1, CarriedData
    <3>3. inRel'[p][q.sub] = outRel[o][q.sub]
          /\ \A c \in SubChannel : c # q.sub => inRel'[p][c] = inRel[p][c]
      <4>1. inRel[p][q.sub] \in Bit /\ outRel[o][q.sub] \in Bit /\ DOMAIN inRel[p] = SubChannel
        BY <1>5, <2>1, <3>2
      <4>2. inRel'[p] = [inRel[p] EXCEPT ![q.sub] = 1 - inRel[p][q.sub]]
        BY <2>2, <2>5 DEF Flipped
      <4> QED BY <3>2, <4>1, <4>2 DEF Bit
    <3>4. Unread(o, s)' = U2
      <4>1. \A c : c \in Unread(o, s)' <=> c \in Flight(sub[o], s) /\ outRel[o][c] # inRel'[p][c]
        BY <2>1, <2>2 DEF Unread, Untaken
      <4>2. \A c : c \in Unread(o, s) <=> c \in Flight(sub[o], s) /\ outRel[o][c] # inRel[p][c]
        BY <2>1 DEF Unread, Untaken
      <4>3. Flight(sub[o], s) \subseteq SubChannel
        BY DEF Flight
      <4>4. \A c : c \in Unread(o, s)' <=> c \in U2
        BY <3>2, <3>3, <4>1, <4>2, <4>3
      <4> QED BY <4>4
    <3> HIDE DEF U2
    <3>5. /\ Seen(o, s, off) <= HandledOf(waitingList[o][s], off, U2)
          /\ Complete(r2) =>
               Conveyed(sub[o], s, U2, waitingList[o][s], NoBuffer, off, Outbox[o][s],
                        Buffered(o, s), sent[o][s], delivered[p][s] \o r2.item)
          /\ ~Complete(r2) =>
               Conveyed(sub[o], s, U2, waitingList[o][s], r2, off, Outbox[o][s],
                        Buffered(o, s), sent[o][s], delivered[p][s])
      <4>1. r2 = IF Carries(q, s) THEN ReadData(receiveList[p][s], q.data[s]) ELSE receiveList[p][s]
        OBVIOUS
      <4> HIDE DEF r2
      <4> QED BY <1>1, <2>1, <3>1, <4>1, ReadConveyed DEF U2
    <3> HIDE DEF r2
    <3>6. Conveyed(sub[o], s, U2, waitingList[o][s], receiveList'[p][s], off, Outbox[o][s],
                   Buffered(o, s), sent[o][s], delivered'[p][s])
      BY <1>4, <2>5, <3>5
    <3>7. LosslessAt(o, s, off)'
      BY <2>1, <2>2, <2>3, <3>4, <3>6 DEF LosslessAt
    <3>8. Seen(o, s, off)' = HandledOf(waitingList[o][s], off, U2)
      BY <2>2, <3>4 DEF Seen
    <3>9. Onward(o, s, off, off)
      BY <3>5, <3>7, <3>8 DEF Onward
    <3> QED BY <3>9
  <2> QED BY <1>4, <2>4, <2>5
<1> QED BY <1>8, <1>9

-----------------------------------------------------------------------------
(* What is under way stays what it was *)

\* A datagram not overtaken carries a subchannel that is on the wire.
LEMMA FreshSubChannel ==
  ASSUME IInv, NEW o \in Peer, NoneDirty(o), NEW d \in net[Other(o)], Fresh(Other(o), d),
         d.sub # NoSub
  PROVE  /\ d.sub \in SubChannel /\ sub[o][d.sub].state = "WAITING"
         /\ outRel[o][d.sub] # inRel[Other(o)][d.sub]
<1>1. d.sub \in SubChannel
  BY OtherOther DEF IInv, HeaderTypeOK
<1>2. d \in FreshData(o, d.sub) /\ SubChannelInv(o, d.sub)
  BY <1>1 DEF FreshData, IInv, BitsAgree
<1>3. sub[o][d.sub].state \in {"WAITING", "DIRTY"} /\ outRel[o][d.sub] # inRel[Other(o)][d.sub]
  BY <1>2 DEF SubChannelInv
<1> QED BY <1>1, <1>3 DEF NoneDirty

\* Its data stays right while its subchannel and the head keep what is written
\* of them.
LEMMA DataKept ==
  ASSUME IInv, DInv, NEW o \in Peer, NoneDirty(o), DataFresh(o),
         NEW d \in net[Other(o)], Fresh(Other(o), d), d.sub # NoSub, NEW s \in Stream,
         NEW sb, sb.num = sub[o][d.sub].num, sb.start = sub[o][d.sub].start,
         NEW list2,
         d.sub \in Flight(sub[o], s) =>
           /\ list2[1].msgs = waitingList[o][s][1].msgs /\ list2[1].file = waitingList[o][s][1].file
           /\ list2[1].bytes = waitingList[o][s][1].bytes
  PROVE  d.data[s] = StreamData(sb, list2, s)
<1> DEFINE c == d.sub
<1>1. c \in SubChannel /\ sub[o][c].state = "WAITING"
  BY FreshSubChannel
<1>2. d.data[s] = StreamData(sub[o][c], waitingList[o][s], s)
  BY DEF DataFresh
<1>3. CASE c \in Flight(sub[o], s)
  BY <1>2, <1>3 DEF StreamData
<1>4. CASE c \notin Flight(sub[o], s)
  <2>1. Fragmented(sub[o])
    BY Direction
  <2>2. sub[o][c].num[s] \in Nat /\ ~(sub[o][c].num[s] > 0)
    BY <1>1, <1>4, <2>1, SizeAssumption DEF Flight, Fragmented
  <2>3. sub[o][c].num[s] = 0
    BY <2>2
  <2> QED BY <1>2, <2>3 DEF StreamData
<1> QED BY <1>3, <1>4

\* A head of which something is under way is started.
LEMMA CarriedHead ==
  ASSUME NEW subs, NEW s \in Stream, Fragmented(subs), NEW list, Waiting(list),
         Carry(subs, s, list), Flight(subs, s) # {}
  PROVE  list # <<>> /\ list[1].pending # 0
<1>1. list # <<>>
  BY DEF Carry
<1>2. list[1] \in Item /\ CarryHead(subs, s, list[1])
  BY <1>1 DEF Carry, Waiting
<1> DEFINE h == list[1]
<1> HIDE DEF h
<1>3. h \in Item /\ CarryHead(subs, s, h)
  BY <1>2 DEF h
<1>4. h.pending # 0
  BY <1>3, NothingPending
<1> QED BY <1>1, <1>4 DEF h

\* A direction whose sender, datagrams and sequence numbers do not change.
LEMMA DataSame ==
  ASSUME NEW o \in Peer, DataFresh(o), NoneDirty(o), sub'[o] = sub[o],
         waitingList'[o] = waitingList[o], net'[Other(o)] \subseteq net[Other(o)],
         inSeq[Other(o)] \in Nat, inSeq'[Other(o)] \in Nat, inSeq'[Other(o)] >= inSeq[Other(o)],
         \A d \in net[Other(o)] : d.seq \in Nat
  PROVE  DataFresh(o)' /\ NoneDirty(o)'
<1>1. NoneDirty(o)'
  BY DEF NoneDirty
<1>2. SUFFICES ASSUME NEW d \in net'[Other(o)], Fresh(Other(o), d)', d.sub # NoSub,
                      NEW s \in Stream
               PROVE  d.data[s] = StreamData(sub'[o][d.sub], waitingList'[o][s], s)
  BY <1>1 DEF DataFresh
<1>3. d \in net[Other(o)] /\ Fresh(Other(o), d)
  BY <1>2 DEF Fresh
<1> QED BY <1>2, <1>3 DEF DataFresh

\* Handing data to the channel, and a choked tick.
LEMMA HandedFresh ==
  ASSUME IInv, DInv, NEW p \in Peer, SendNetMsg(p) \/ SendFile(p) \/ SetChoked(p),
         NEW o \in Peer, NoneDirty(o), DataFresh(o)
  PROVE  NoneDirty(o)' /\ DataFresh(o)'
<1>1. /\ inSeq[Other(o)] \in Nat /\ \A d \in net[Other(o)] : d.seq \in Nat
  BY OtherOther DEF IInv, HeaderTypeOK
<1>2. sub' = sub /\ net' = net /\ inSeq' = inSeq
  BY DEF SendNetMsg, SendFile, SetChoked, headerVars
<1>3. CASE waitingList'[o] = waitingList[o]
  BY <1>1, <1>2, <1>3, DataSame
<1>4. CASE waitingList'[o] # waitingList[o]
  <2>1. SendFile(p)
    BY <1>4 DEF SendNetMsg, SetChoked, dataVars
  <2> DEFINE m == Outbox[p][FILE][sent[p][FILE] + 1]
  <2> DEFINE item == NewItem(<<m>>, Bytes[m], m \in Files)
  <2>2. waitingList' = [waitingList EXCEPT ![p][FILE] = Append(@, item)]
    BY <2>1 DEF SendFile
  <2>3. DOMAIN waitingList = Peer /\ DOMAIN waitingList[p] = Stream
    BY DEF DInv, Sending, Loaded
  <2> HIDE DEF item
  <2>4. /\ o = p /\ waitingList'[p][FILE] = Append(waitingList[p][FILE], item)
        /\ \A s \in Stream : s # FILE => waitingList'[p][s] = waitingList[p][s]
    BY <1>4, <2>2, <2>3, StreamsDiffer
  <2>5. NoneDirty(o)'
    BY <1>2 DEF NoneDirty
  <2>6. SUFFICES ASSUME NEW d \in net[Other(o)], Fresh(Other(o), d), d.sub # NoSub,
                        NEW s \in Stream
                 PROVE  d.data[s] = StreamData(sub[o][d.sub], waitingList'[o][s], s)
    BY <1>2, <2>5 DEF DataFresh, Fresh
  <2>7. ASSUME d.sub \in Flight(sub[o], s)
        PROVE  waitingList'[o][s][1] = waitingList[o][s][1]
    <3> DEFINE list == waitingList[o][s]
    <3>1. list # <<>> /\ Waiting(list)
      <4> DEFINE subs == sub[o]
      <4>1. Fragmented(subs) /\ Waiting(list) /\ Carry(subs, s, list) /\ Flight(subs, s) # {}
        BY <2>7, Direction
      <4> HIDE DEF subs, list
      <4> QED BY ONLY s \in Stream, <4>1, CarriedHead
    <3> HIDE DEF list
    <3>2. Append(list, item)[1] = list[1]
      <4>1. list \in Seq(Item) /\ Len(list) \in Nat /\ Len(list) > 0
        BY <3>1, EmptySeq DEF Waiting
      <4> QED BY <4>1
    <3>3. waitingList'[o][s] = list \/ waitingList'[o][s] = Append(list, item)
      BY <2>4 DEF list
    <3> QED BY <3>2, <3>3 DEF list
  <2> DEFINE sb == sub[o][d.sub]
  <2> DEFINE list2 == waitingList'[o][s]
  <2>8. /\ d.sub \in Flight(sub[o], s) =>
             /\ list2[1].msgs = waitingList[o][s][1].msgs /\ list2[1].file = waitingList[o][s][1].file
             /\ list2[1].bytes = waitingList[o][s][1].bytes
        /\ sb.num = sub[o][d.sub].num /\ sb.start = sub[o][d.sub].start
    BY <2>7
  <2> HIDE DEF sb, list2
  <2>9. d.data[s] = StreamData(sb, list2, s)
    BY <2>6, <2>8, DataKept
  <2> QED BY <2>9 DEF sb, list2
<1> QED BY <1>3, <1>4

\* A new datagram carries what its subchannel does.
LEMMA PacketCarries ==
  ASSUME NEW p \in Peer, NEW subs, WellFormed(subs), NEW lists, Packet(p, subs, lists).sub # NoSub,
         NEW s \in Stream
  PROVE  Packet(p, subs, lists).data[s] =
           StreamData(TransmittedSub(p, subs)[Packet(p, subs, lists).sub], lists[s], s)
<1> DEFINE c == First(InState(subs, "TOSEND"))
<1>1. InState(subs, "TOSEND") # {}
  BY DEF Packet
<1>2. Packet(p, subs, lists).sub = c /\ Packet(p, subs, lists).data[s] = StreamData(subs[c], lists[s], s)
  BY <1>1 DEF Packet, ReliableData
<1>3. c \in SubChannel
  BY <1>1, FirstInState
<1> HIDE DEF c
<1>4. TransmittedSub(p, subs)[c].num = subs[c].num /\ TransmittedSub(p, subs)[c].start = subs[c].start
  BY <1>3, TransmittedFields
<1>5. StreamData(TransmittedSub(p, subs)[c], lists[s], s) = StreamData(subs[c], lists[s], s)
  BY <1>4 DEF StreamData
<1> QED BY <1>2, <1>5

\* A started head keeps its messages and its size when a datagram is sent.
LEMMA StartedHead ==
  ASSUME NEW list, Waiting(list), list # <<>>, list[1].pending # 0, NEW msgs \in Seq(Msg),
         NEW flushed, flushed = CreateFragments(list, msgs),
         NEW packed \in CompressFragments(flushed), NEW k \in Nat,
         NEW list2, list2 = packed \/ list2 = [packed EXCEPT ![1].pending = @ + k]
  PROVE  list2[1].msgs = list[1].msgs /\ list2[1].file = list[1].file /\ list2[1].bytes = list[1].bytes
<1>1. Waiting(flushed) /\ flushed # <<>> /\ flushed[1] = list[1]
  <2>1. /\ Waiting(CreateFragments(list, msgs)) /\ CreateFragments(list, msgs) # <<>>
        /\ CreateFragments(list, msgs)[1] = list[1]
    BY FragmentsCreated
  <2> QED BY <2>1
<1>2. /\ Waiting(packed) /\ packed # <<>>
      /\ packed[1].msgs = list[1].msgs /\ packed[1].file = list[1].file
      /\ packed[1].bytes = list[1].bytes
  BY <1>1, FragmentsCompressed
<1> DEFINE more == [packed EXCEPT ![1].pending = @ + k]
<1>3. more[1].msgs = packed[1].msgs /\ more[1].file = packed[1].file /\ more[1].bytes = packed[1].bytes
  BY ONLY <1>2, k \in Nat, HeadPending, ZenonT(30)
<1> HIDE DEF more
<1>4. list2 = packed \/ list2 = more
  BY DEF more
<1> QED BY ONLY <1>2, <1>3, <1>4

\* SendDatagram.
LEMMA SendDatagramFresh ==
  ASSUME IInv, DInv, NEW p \in Peer, SendDatagram(p),
         NEW o \in Peer, NoneDirty(o), DataFresh(o)
  PROVE  NoneDirty(o)' /\ DataFresh(o)'
<1> DEFINE flushed == [waitingList[p] EXCEPT ![NORMAL] =
                         CreateFragments(waitingList[p][NORMAL], streamReliable[p])]
<1>1. PICK lists, take :
        /\ \A t \in Stream : Waiting(flushed[t]) /\ lists[t] \in CompressFragments(flushed[t])
        /\ take \in [Stream -> 0 .. MaxFragments]
        /\ Loaded(sub[p], flushed) /\ Loaded(sub[p], lists) /\ WellFormed(UpdatedSub(p, lists, take))
        /\ sub' = [sub EXCEPT ![p] = TransmittedSub(p, UpdatedSub(p, lists, take))]
        /\ waitingList' = [waitingList EXCEPT ![p] = UpdatedWaiting(p, lists, take)]
        /\ net' = [net EXCEPT ![Other(p)] =
                     Travelling(net[Other(p)] \cup
                                  {Packet(p, UpdatedSub(p, lists, take), UpdatedWaiting(p, lists, take))},
                                outSeq[p])]
        /\ UNCHANGED <<inSeq, inRel, receiveList, historyVars>>
  <2>1. SendDatagram(p)
    OBVIOUS
  <2> QED BY <2>1, SendDatagramData
<1> DEFINE subs1 == UpdatedSub(p, lists, take)
<1> DEFINE subs2 == TransmittedSub(p, subs1)
<1> DEFINE updated == UpdatedWaiting(p, lists, take)
<1> DEFINE pkt == Packet(p, subs1, updated)
<1>2. /\ DOMAIN sub = Peer /\ DOMAIN waitingList = Peer /\ DOMAIN net = Peer
      /\ DOMAIN waitingList[p] = Stream /\ Other(p) \in Peer /\ Other(o) \in Peer
      /\ WellFormed(sub[p]) /\ outSeq[p] \in Nat /\ inSeq[Other(o)] \in Nat
      /\ outRel[p] \in [SubChannel -> Bit]
      /\ \A d \in net[Other(o)] : d.seq \in Nat
  BY OtherOther DEF IInv, HeaderTypeOK, DInv, Sending, Loaded
<1>3. /\ inSeq' = inSeq /\ sub'[p] = subs2 /\ waitingList'[p] = updated
      /\ net'[Other(p)] \subseteq net[Other(p)] \cup {pkt}
  BY <1>1, <1>2 DEF Travelling
<1>4. CASE o # p
  <2>1. /\ sub'[o] = sub[o] /\ waitingList'[o] = waitingList[o] /\ net'[Other(o)] = net[Other(o)]
    <3>1. Other(o) # Other(p)
      BY <1>4, OtherOther
    <3> QED BY <1>1, <1>2, <1>4, <3>1
  <2> QED BY <1>2, <1>3, <2>1, DataSame
<1>5. CASE o = p
  <2>1. NoneDirty(p)'
    <3>1. \A c \in SubChannel : subs1[c].state = "TOSEND" \/ subs1[c] = sub[p][c]
      BY <1>2, UpdatedValues
    <3>2. \A c \in SubChannel : subs2[c].state = "WAITING" \/ subs2[c] = subs1[c]
      <4>1. WellFormed(subs1) /\ outSeq[p] \in Nat
        BY <1>1, <1>2
      <4> HIDE DEF subs1, updated
      <4>2. \A c \in SubChannel :
               \/ /\ Packet(p, subs1, updated).sub = c
                  /\ subs1[c].state = "TOSEND"
                  /\ TransmittedSub(p, subs1)[c].state = "WAITING"
                  /\ TransmittedSub(p, subs1)[c].seq = outSeq[p]
               \/ /\ Packet(p, subs1, updated).sub # c
                  /\ TransmittedSub(p, subs1)[c] = subs1[c]
        BY ONLY p \in Peer, <4>1, TransmittedValues
      <4> QED BY <4>2
    <3> HIDE DEF subs1, subs2
    <3> QED BY <1>3, <1>5, <3>1, <3>2 DEF NoneDirty
  <2>2. SUFFICES ASSUME NEW d \in net'[Other(p)], Fresh(Other(p), d), d.sub # NoSub,
                        NEW s \in Stream
                 PROVE  d.data[s] = StreamData(subs2[d.sub], updated[s], s)
    <3> HIDE DEF subs1, subs2, updated
    <3> QED BY <1>3, <1>5, <2>1 DEF DataFresh, Fresh
  <2>3. CASE d = pkt
    <3>1. WellFormed(subs1)
      BY <1>1
    <3>2. pkt.sub # NoSub
      BY <2>2, <2>3
    <3> HIDE DEF subs1, updated
    <3>3. pkt.data[s] = StreamData(subs2[pkt.sub], updated[s], s)
      BY <3>1, <3>2, PacketCarries
    <3> HIDE DEF pkt
    <3> QED BY <2>3, <3>3
  <2>4. CASE d \in net[Other(p)]
    <3>1. d.sub \in SubChannel /\ sub[p][d.sub].state = "WAITING"
      BY <1>5, <2>2, <2>4, FreshSubChannel
    <3>2. subs2[d.sub].num = sub[p][d.sub].num /\ subs2[d.sub].start = sub[p][d.sub].start
      <4>1. \A c \in SubChannel : sub[p][c].state # "FREE" =>
              subs2[c].num = sub[p][c].num /\ subs2[c].start = sub[p][c].start
        BY <1>1, UpdatedUnread
      <4> HIDE DEF subs2
      <4> QED BY <3>1, <4>1
    <3>3. ASSUME d.sub \in Flight(sub[p], s)
          PROVE  /\ updated[s][1].msgs = waitingList[p][s][1].msgs
                 /\ updated[s][1].file = waitingList[p][s][1].file
                 /\ updated[s][1].bytes = waitingList[p][s][1].bytes
      <4> DEFINE list == waitingList[p][s]
      <4> DEFINE subs == sub[p]
      <4> DEFINE msgs == IF s = NORMAL THEN streamReliable[p] ELSE <<>>
      <4> DEFINE list1 == flushed[s]
      <4> DEFINE packed == lists[s]
      <4> DEFINE list2 == updated[s]
      <4> DEFINE k == take[s]
      <4>1. Fragmented(subs) /\ Waiting(list) /\ Carry(subs, s, list) /\ Flight(subs, s) # {}
            /\ msgs \in Seq(Msg)
        BY <3>3, Direction
      <4>2. list1 = CreateFragments(list, msgs)
        BY <1>2 DEF CreateFragments
      <4>3. packed \in CompressFragments(list1) /\ k \in Nat
        BY <1>1, SizeAssumption
      <4>4. list2 = packed \/ list2 = [packed EXCEPT ![1].pending = @ + k]
        BY <1>1 DEF UpdatedWaiting
      <4> HIDE DEF list, subs, msgs, list1, packed, list2, k, flushed, updated
      <4>5. list # <<>> /\ list[1].pending # 0
        BY ONLY s \in Stream, <4>1, CarriedHead
      <4>6. list2[1].msgs = list[1].msgs /\ list2[1].file = list[1].file /\ list2[1].bytes = list[1].bytes
        BY ONLY <4>1, <4>2, <4>3, <4>4, <4>5, StartedHead
      <4> QED BY <4>6 DEF list, list2
    <3> DEFINE sb == subs2[d.sub]
    <3> DEFINE list2 == updated[s]
    <3>4. /\ d.sub \in Flight(sub[p], s) =>
               /\ list2[1].msgs = waitingList[p][s][1].msgs /\ list2[1].file = waitingList[p][s][1].file
               /\ list2[1].bytes = waitingList[p][s][1].bytes
          /\ sb.num = sub[p][d.sub].num /\ sb.start = sub[p][d.sub].start
      BY <3>2, <3>3
    <3> HIDE DEF sb, list2
    <3>5. d.data[s] = StreamData(sb, list2, s)
      BY <1>5, <2>2, <2>4, <3>4, DataKept
    <3> QED BY <3>5 DEF sb, list2
  <2>5. d = pkt \/ d \in net[Other(p)]
    <3> HIDE DEF pkt
    <3> QED BY <1>3, <2>2
  <2> QED BY <2>3, <2>4, <2>5
<1> QED BY <1>4, <1>5

\* What is under way is not acknowledged, so it stays on its subchannel and the
\* head stays on the list.
LEMMA HeaderKeeps ==
  ASSUME IInv, DInv, NEW p \in Peer, NEW q \in net[p], Fresh(p, q), NoneDirty(p),
         NEW d \in net[Other(p)], Fresh(Other(p), d), d.sub # NoSub
  PROVE  /\ HeaderSub(p, q)[d.sub].num = sub[p][d.sub].num
         /\ HeaderSub(p, q)[d.sub].start = sub[p][d.sub].start
         /\ \A s \in Stream : d.sub \in Flight(sub[p], s) =>
              LET list == waitingList[p][s]
                  list2 == HeaderWaiting(p, q)[s]
              IN  /\ list2[1].msgs = list[1].msgs /\ list2[1].file = list[1].file
                  /\ list2[1].bytes = list[1].bytes
<1> DEFINE c == d.sub
<1> DEFINE new == HeaderSub(p, q)[c]
<1>1. c \in SubChannel /\ sub[p][c].state = "WAITING" /\ outRel[p][c] # inRel[Other(p)][c]
  BY FreshSubChannel
<1>2. c \notin AckedSubs(p, q)
  <2>1. SubChannelInv(p, c) /\ q \in FreshReply(p)
    BY <1>1 DEF IInv, BitsAgree, FreshReply
  <2>2. ~Acknowledged(p, q, c)
    BY <1>1, <2>1 DEF SubChannelInv
  <2> QED BY <2>2 DEF AckedSubs
<1>3. ValidHeader(p, q) /\ WellFormed(sub[p])
  BY FreshIsValid DEF IInv, HeaderTypeOK
<1>4. \A s \in Stream : /\ Fragmented(sub[p]) /\ Waiting(waitingList[p][s])
                        /\ Carry(sub[p], s, waitingList[p][s])
  BY Direction
<1>5. Fragmented(sub[p])
  BY <1>4, StreamsDiffer
<1>6. /\ new.state \in {"TOSEND", "WAITING"} <=> sub[p][c].state \in {"TOSEND", "WAITING"}
      /\ new.state \in {"TOSEND", "WAITING"} => new.num = sub[p][c].num /\ new.start = sub[p][c].start
  <2> HIDE DEF c
  <2> QED BY <1>1, <1>2, <1>3, <1>5, HeaderFragments
<1>7. new.state \in {"TOSEND", "WAITING"} /\ new.num = sub[p][c].num /\ new.start = sub[p][c].start
  BY <1>1, <1>6
<1>8. Fragmented(HeaderSub(p, q))
  BY <1>3, <1>5, HeaderFragments DEF Fragmented
<1>9. ASSUME NEW s \in Stream, c \in Flight(sub[p], s)
      PROVE  LET list == waitingList[p][s]
                 list2 == HeaderWaiting(p, q)[s]
             IN  /\ list2[1].msgs = list[1].msgs /\ list2[1].file = list[1].file
                 /\ list2[1].bytes = list[1].bytes
  <2> DEFINE list == waitingList[p][s]
  <2> DEFINE subs == sub[p]
  <2> DEFINE subs2 == HeaderSub(p, q)
  <2>1. Fragmented(subs) /\ Waiting(list) /\ Carry(subs, s, list) /\ Flight(subs, s) # {}
    BY <1>4, <1>9
  <2>2. PICK list2 :
          /\ Waiting(list2) /\ Len(list2) = Len(list) /\ (list2 = <<>> <=> list = <<>>)
          /\ \A i \in 2 .. Len(list) : list2[i] = list[i]
          /\ list # <<>> =>
               /\ list2[1].msgs = list[1].msgs /\ list2[1].file = list[1].file
               /\ list2[1].bytes = list[1].bytes
               /\ list2[1].acked = list[1].acked + AckedFragments(p, q, s)
               /\ SentFragments(list2[1]) = SentFragments(list[1])
               /\ AckedFragments(p, q, s) \in Nat
          /\ Carry(subs2, s, list2)
          /\ HeaderWaiting(p, q)[s] = CheckWaitingList(list2, q.ack)
    <3>1. /\ WellFormed(sub[p]) /\ Fragmented(sub[p]) /\ ValidHeader(p, q)
          /\ list = waitingList[p][s] /\ Waiting(list) /\ Carry(sub[p], s, list)
      BY <1>3, <1>4
    <3> HIDE DEF list
    <3> QED BY ONLY p \in Peer, s \in Stream, <3>1, HeaderFlight
  <2>3. c \in Flight(subs2, s)
    BY <1>1, <1>7, <1>9 DEF Flight
  <2>4. Fragmented(subs2)
    BY <1>8
  <2> HIDE DEF list, subs, subs2
  <2>5. list # <<>>
    BY ONLY s \in Stream, <2>1, CarriedHead
  <2>6. list2 # <<>> /\ list2[1].pending # 0
    BY ONLY s \in Stream, <2>2, <2>3, <2>4, CarriedHead
  <2>7. list2[1].acked # NumFragments(list2[1].bytes)
    <3> DEFINE h == list2[1]
    <3>1. h \in Item /\ CarryHead(subs2, s, h)
      BY <2>2, <2>6 DEF Waiting, Carry
    <3>2. h.pending # 0
      BY <2>6
    <3> HIDE DEF h
    <3>3. /\ h.acked \in Nat /\ h.pending \in Nat /\ SentFragments(h) = h.acked + h.pending
          /\ NumFragments(h.bytes) \in Nat
      BY <3>1, ItemFields
    <3>4. SentFragments(h) <= NumFragments(h.bytes)
      BY <3>1 DEF CarryHead
    <3> QED BY <3>2, <3>3, <3>4 DEF h
  <2>8. HeaderWaiting(p, q)[s] = list2
    BY <2>2, <2>7 DEF CheckWaitingList
  <2> QED BY <2>2, <2>5, <2>8 DEF list
<1> QED BY <1>7, <1>9

\* ProcessPacket.
LEMMA ProcessPacketFresh ==
  ASSUME IInv, DInv, CInv, Steady, NEW p \in Peer, NEW q \in net[p], ProcessPacket(p, q),
         NEW o \in Peer, NoneDirty(o), DataFresh(o)
  PROVE  NoneDirty(o)' /\ DataFresh(o)'
<1>1. Fresh(p, q)
  BY DEF ProcessPacket
<1>2. ValidHeader(p, q)
  BY <1>1, FreshIsValid
<1>3. PICK taken, lists, outcomes, cleared : PacketEffect(p, q, taken, lists, outcomes, cleared)
  BY <1>2, ProcessPacketData
<1>4. /\ sub' = [sub EXCEPT ![p] = HeaderSub(p, q)]
      /\ waitingList' = [waitingList EXCEPT ![p] = HeaderWaiting(p, q)]
      /\ inSeq' = [inSeq EXCEPT ![p] = q.seq]
      /\ net' = [net EXCEPT ![p] = Duplicable(net[p], q)]
  BY <1>1, <1>3, HeaderStep
<1>5. /\ DOMAIN sub = Peer /\ DOMAIN waitingList = Peer /\ DOMAIN net = Peer /\ DOMAIN inSeq = Peer
      /\ WellFormed(sub[p]) /\ outRel[p] \in [SubChannel -> Bit]
      /\ \A r \in Peer : inSeq[r] \in Nat
      /\ \A r \in Peer : \A d \in net[r] : d.seq \in Nat
      /\ Other(p) \in Peer /\ Other(p) # p /\ Other(o) \in Peer
  BY OtherOther DEF IInv, HeaderTypeOK, DInv, Sending
<1>6. CASE o # p
  <2>1. Other(o) = p
    BY <1>6, OtherOther DEF Peer, Other
  <2>2. sub'[o] = sub[o] /\ waitingList'[o] = waitingList[o]
    BY <1>4, <1>5, <1>6
  <2>3. inSeq'[p] = q.seq /\ q.seq \in Nat /\ q.seq >= inSeq[p]
    BY <1>1, <1>4, <1>5 DEF Fresh
  <2>4. net'[p] \subseteq net[p]
    BY <1>4, <1>5 DEF Duplicable
  <2> QED BY <1>5, <2>1, <2>2, <2>3, <2>4, DataSame
<1>7. CASE o = p
  <2>1. sub'[p] = HeaderSub(p, q) /\ waitingList'[p] = HeaderWaiting(p, q)
        /\ inSeq'[Other(p)] = inSeq[Other(p)] /\ net'[Other(p)] = net[Other(p)]
    BY <1>4, <1>5
  <2>2. NoneDirty(p)'
    <3>1. ASSUME NEW c \in SubChannel PROVE HeaderSub(p, q)[c].state # "DIRTY"
      <4>1. sub[p][c].state # "DIRTY"
        BY <1>7 DEF NoneDirty
      <4> DEFINE sent2 == [sub[p][c] EXCEPT !.state = "TOSEND"]
      <4>2. \/ HeaderSub(p, q)[c] = FreeSub \/ HeaderSub(p, q)[c] = sent2
            \/ HeaderSub(p, q)[c] = sub[p][c]
        BY DEF HeaderSub
      <4>3. DOMAIN sub[p][c] = {"state", "seq", "start", "num"}
        BY <1>5 DEF WellFormed
      <4>4. sent2.state = "TOSEND" /\ FreeSub.state = "FREE"
        BY <4>3, FreeFragments
      <4> HIDE DEF sent2
      <4> QED BY ONLY <4>1, <4>2, <4>4
    <3> QED BY <2>1, <3>1 DEF NoneDirty
  <2>3. SUFFICES ASSUME NEW d \in net[Other(p)], Fresh(Other(p), d), d.sub # NoSub,
                        NEW s \in Stream
                 PROVE  d.data[s] = StreamData(HeaderSub(p, q)[d.sub], HeaderWaiting(p, q)[s], s)
    BY <1>7, <2>1, <2>2 DEF DataFresh, Fresh
  <2> DEFINE sb == HeaderSub(p, q)[d.sub]
  <2> DEFINE list2 == HeaderWaiting(p, q)[s]
  <2>4. /\ d.sub \in Flight(sub[p], s) =>
             /\ list2[1].msgs = waitingList[p][s][1].msgs /\ list2[1].file = waitingList[p][s][1].file
             /\ list2[1].bytes = waitingList[p][s][1].bytes
        /\ sb.num = sub[p][d.sub].num /\ sb.start = sub[p][d.sub].start
    BY <1>1, <1>7, <2>3, HeaderKeeps
  <2> HIDE DEF sb, list2
  <2>5. d.data[s] = StreamData(sb, list2, s)
    BY <1>7, <2>3, <2>4, DataKept
  <2> QED BY <2>5 DEF sb, list2
<1> QED BY <1>6, <1>7

-----------------------------------------------------------------------------
(* Every state *)

\* Setup establishes the invariant: nothing was sent.
LEMMA InitCInv == Init => CInv
<1> SUFFICES ASSUME Init PROVE CInv
  OBVIOUS
<1> SUFFICES ASSUME NEW p \in Peer
             PROVE  NoneDirty(p) /\ DataFresh(p) /\ \A s \in Stream : \E off : LosslessAt(p, s, off)
  BY DEF CInv
<1>1. Other(p) \in Peer
  BY OtherOther
<1>2. \A c \in SubChannel : sub[p][c].state = "FREE"
  BY DEF Init, InitialSub, FreeSub
<1>3. NoneDirty(p)
  BY <1>2 DEF NoneDirty
<1>4. DataFresh(p)
  BY <1>1 DEF Init, DataFresh
<1>5. ASSUME NEW s \in Stream PROVE \E off : LosslessAt(p, s, off)
  <2> DEFINE queue == Outbox[p][s]
  <2> DEFINE none == <<>>
  <2> DEFINE off == [i \in 1 .. 1 |-> 0]
  <2>1. /\ waitingList[p][s] = none /\ receiveList[Other(p)][s] = NoBuffer
        /\ delivered[Other(p)][s] = none /\ sent[p][s] = 0 /\ Buffered(p, s) = none
    BY <1>1 DEF Init, NoLists, Buffered
  <2>2. queue \in Seq(Msg)
    BY MessageAssumption
  <2> DEFINE U == Unread(p, s)
  <2> DEFINE subs == sub[p]
  <2> HIDE DEF queue, U, subs
  <2>3. Cut(queue, 0, 0) = none
    <3>1. Len(queue) \in Nat
      BY <2>2
    <3>2. Cut(queue, 0, 0) = <<>>
      BY <2>2, <3>1, CutFacts
    <3> QED BY <3>2
  <2>4. Len(none) = 0
    OBVIOUS
  <2>5. off[1] = 0 /\ off \in [1 .. Len(none) + 1 -> Nat]
    BY <2>4
  <2> HIDE DEF off
  <2>6. Placed(none, off, queue, none, 0)
    BY <2>3, <2>4, <2>5 DEF Placed
  <2>7. HandledOf(none, off, U) = 0
    BY <2>5 DEF HandledOf
  <2>8. Follows(subs, s, U, none, NoBuffer)
    BY DEF Follows
  <2>9. Conveyed(subs, s, U, none, NoBuffer, off, queue, none, 0, none)
    BY <2>3, <2>6, <2>7, <2>8 DEF Conveyed
  <2>10. LosslessAt(p, s, off)
    BY <2>1, <2>9 DEF LosslessAt, queue, U, subs
  <2> QED BY <2>10
<1> QED BY <1>3, <1>4, <1>5

\* Every step moves every direction of every stream onward, or leaves it.
LEMMA StepOnward ==
  ASSUME IInv, DInv, CInv, Steady, [Next]_vars,
         NEW o \in Peer, NEW s \in Stream, NEW off, LosslessAt(o, s, off)
  PROVE  \E off2 : Onward(o, s, off, off2)
<1>1. CASE UNCHANGED vars
  <2>1. /\ sub'[o] = sub[o] /\ outRel'[o] = outRel[o] /\ inRel'[Other(o)] = inRel[Other(o)]
        /\ waitingList'[o][s] = waitingList[o][s]
        /\ receiveList'[Other(o)][s] = receiveList[Other(o)][s]
        /\ Buffered(o, s)' = Buffered(o, s) /\ sent'[o][s] = sent[o][s]
        /\ delivered'[Other(o)][s] = delivered[Other(o)][s]
    BY <1>1 DEF vars, headerVars, dataVars, historyVars, Buffered
  <2> QED BY <2>1, LosslessKept
<1>2. CASE Next
  <2>1. PICK p \in Peer : \/ SendNetMsg(p) \/ SendFile(p) \/ SetChoked(p) \/ SendDatagram(p)
                          \/ Clear(p) \/ \E q \in net[p] : ProcessPacket(p, q)
    BY <1>2 DEF Next
  <2>2. CASE SendNetMsg(p)
    BY <2>2, SendNetMsgOnward
  <2>3. CASE SendFile(p)
    BY <2>3, SendFileOnward
  <2>4. CASE SetChoked(p)
    BY <2>4, SetChokedOnward
  <2>5. CASE SendDatagram(p)
    BY <2>5, SendDatagramOnward
  <2>6. CASE Clear(p)
    <3>1. clears[p] \in Nat /\ MaxClears[p] = 0
      BY DEF DInv, Histories, Steady
    <3>2. clears[p] < MaxClears[p]
      BY <2>6 DEF Clear
    <3> QED BY <3>1, <3>2
  <2>7. CASE \E q \in net[p] : ProcessPacket(p, q)
    BY <2>7, ProcessPacketOnward
  <2> QED BY <2>1, <2>2, <2>3, <2>4, <2>5, <2>6, <2>7
<1> QED BY <1>1, <1>2

\* Every step preserves the invariant.
LEMMA NextCInv ==
  ASSUME IInv, DInv, CInv, Steady, [Next]_vars
  PROVE  CInv'
<1> SUFFICES ASSUME NEW o \in Peer
             PROVE  /\ NoneDirty(o)' /\ DataFresh(o)'
                    /\ \A s \in Stream : \E off : LosslessAt(o, s, off)'
  BY DEF CInv
<1>1. NoneDirty(o) /\ DataFresh(o) /\ \A s \in Stream : \E off : LosslessAt(o, s, off)
  BY DEF CInv
<1>2. \A s \in Stream : \E off : LosslessAt(o, s, off)'
  <2>1. TAKE s \in Stream
  <2>2. PICK off : LosslessAt(o, s, off)
    BY <1>1
  <2>3. PICK off2 : Onward(o, s, off, off2)
    BY <2>2, StepOnward
  <2>4. LosslessAt(o, s, off2)'
    BY <2>3 DEF Onward
  <2> QED BY <2>4 DEF LosslessAt, Unread, Buffered
<1>3. CASE UNCHANGED vars
  <2>1. NoneDirty(o)' /\ DataFresh(o)'
    BY <1>1, <1>3 DEF vars, headerVars, dataVars, NoneDirty, DataFresh, Fresh
  <2> QED BY <1>2, <2>1
<1>4. CASE Next
  <2>1. PICK p \in Peer : \/ SendNetMsg(p) \/ SendFile(p) \/ SetChoked(p) \/ SendDatagram(p)
                          \/ Clear(p) \/ \E q \in net[p] : ProcessPacket(p, q)
    BY <1>4 DEF Next
  <2>2. CASE SendNetMsg(p) \/ SendFile(p) \/ SetChoked(p)
    BY <1>1, <1>2, <2>2, HandedFresh
  <2>3. CASE SendDatagram(p)
    BY <1>1, <1>2, <2>3, SendDatagramFresh
  <2>4. CASE Clear(p)
    <3>1. clears[p] \in Nat /\ MaxClears[p] = 0
      BY DEF DInv, Histories, Steady
    <3>2. clears[p] < MaxClears[p]
      BY <2>4 DEF Clear
    <3> QED BY <3>1, <3>2
  <2>5. CASE \E q \in net[p] : ProcessPacket(p, q)
    BY <1>1, <1>2, <2>5, ProcessPacketFresh
  <2> QED BY <2>1, <2>2, <2>3, <2>4, <2>5
<1> QED BY <1>2, <1>3, <1>4

-----------------------------------------------------------------------------
(* What the sender holds *)

\* A sum of differences of neighbours.
LEMMA SumTelescopes ==
  ASSUME NEW N \in Nat, NEW off, \A i \in 1 .. N + 1 : off[i] \in Int,
         NEW f, \A i \in 1 .. N : f[i] = off[i + 1] - off[i]
  PROVE  SumFunctionOnSet(f, 1 .. N) = off[N + 1] - off[1]
<1> DEFINE Bad == {k \in 0 .. N : SumFunctionOnSet(f, 1 .. k) # off[k + 1] - off[1]}
<1>1. SUFFICES ASSUME Bad # {} PROVE FALSE
  OBVIOUS
<1>2. PICK k \in Bad : \A d \in Bad : k <= d
  <2>1. Bad \in SUBSET Nat
    OBVIOUS
  <2> HIDE DEF Bad
  <2> QED BY <1>1, <2>1, FirstIsLeast
<1>3. k \in 0 .. N /\ SumFunctionOnSet(f, 1 .. k) # off[k + 1] - off[1]
  OBVIOUS
<1>4. ASSUME NEW d \in 0 .. N, d < k PROVE SumFunctionOnSet(f, 1 .. d) = off[d + 1] - off[1]
  <2>1. SUFFICES ASSUME SumFunctionOnSet(f, 1 .. d) # off[d + 1] - off[1] PROVE FALSE
    OBVIOUS
  <2>2. d \in Bad
    BY <2>1
  <2>3. k <= d
    BY <1>2, <2>2
  <2> HIDE DEF Bad
  <2> QED BY <1>3, <1>4, <2>3
<1> HIDE DEF Bad
<1>5. k # 0
  <2>1. SumFunctionOnSet(f, {}) = 0
    BY SumNothing
  <2>2. 1 .. 0 = {} /\ off[0 + 1] - off[1] = 0
    OBVIOUS
  <2> QED BY <1>3, <2>1, <2>2
<1>6. k - 1 \in 0 .. N /\ k \in 1 .. N /\ k \in 1 .. k /\ (1 .. k) \ {k} = 1 .. (k - 1)
  BY <1>3, <1>5
<1>7. SumFunctionOnSet(f, 1 .. (k - 1)) = off[k] - off[1]
  BY <1>4, <1>6
<1>8. SumFunctionOnSet(f, 1 .. k) = f[k] + SumFunctionOnSet(f, (1 .. k) \ {k})
  <2>1. IsFiniteSet(1 .. k)
    BY <1>3, FS_Interval
  <2>2. \A x \in 1 .. k : f[x] \in Int
    <3>1. TAKE x \in 1 .. k
    <3>2. x \in 1 .. N /\ x \in 1 .. N + 1 /\ x + 1 \in 1 .. N + 1
      BY <1>3
    <3> QED BY <3>2
  <2> QED BY <1>6, <2>1, <2>2, SumRemove
<1>9. f[k] = off[k + 1] - off[k] /\ off[k + 1] \in Int /\ off[k] \in Int /\ off[1] \in Int
  <2>1. k \in 1 .. N + 1 /\ k + 1 \in 1 .. N + 1 /\ 1 \in 1 .. N + 1
    BY <1>6
  <2> QED BY <1>6, <2>1
<1>10. SumFunctionOnSet(f, 1 .. k) = f[k] + (off[k] - off[1])
  BY <1>6, <1>7, <1>8
<1>11. SumFunctionOnSet(f, 1 .. k) = off[k + 1] - off[1]
  BY ONLY <1>9, <1>10
<1> QED BY <1>3, <1>11

\* The sender holds the messages behind the first place: all others have left.
LEMMA HeldIs ==
  ASSUME DInv, NEW p \in Peer, NEW s \in Stream, NEW off, LosslessAt(p, s, off)
  PROVE  sent[p][s] - Held(p, s) = off[1]
<1> DEFINE list == waitingList[p][s]
<1> DEFINE queue == Outbox[p][s]
<1> DEFINE n == sent[p][s]
<1> DEFINE buffered == Buffered(p, s)
<1> DEFINE f == [i \in DOMAIN list |-> Len(list[i].msgs)]
<1>1. /\ Waiting(list) /\ queue \in Seq(Msg) /\ n \in Nat /\ n <= Len(queue)
      /\ streamReliable[p] \in Seq(Msg)
  BY Direction
<1>2. Placed(list, off, queue, buffered, n)
  BY DEF LosslessAt, Conveyed
<1>3. Held(p, s) = SumFunctionOnSet(f, DOMAIN f) + Len(buffered)
  <2>1. Len(buffered) = IF s = NORMAL THEN Len(streamReliable[p]) ELSE 0
    BY DEF Buffered
  <2> QED BY <2>1 DEF Held, SumFunction
<1>4. DOMAIN f = 1 .. Len(list) /\ \A i \in 1 .. Len(list) : f[i] = Len(list[i].msgs)
  BY <1>1 DEF Waiting
<1> HIDE DEF list, queue, n, buffered, f
<1>5. /\ Len(list) \in Nat
      /\ \A i \in 1 .. Len(list) + 1 : off[i] \in Nat /\ off[i] <= n
      /\ buffered \in Seq(Msg) /\ Len(buffered) = n - off[Len(list) + 1]
  BY ONLY <1>1, <1>2, PlacedFacts
<1>6. \A i \in 1 .. Len(list) : f[i] = off[i + 1] - off[i]
  <2>1. TAKE i \in 1 .. Len(list)
  <2>2. i \in 1 .. Len(list) + 1 /\ i + 1 \in 1 .. Len(list) + 1
    BY <1>5
  <2>3. off[i] \in Nat /\ off[i + 1] \in Nat /\ off[i] <= off[i + 1] /\ off[i + 1] <= Len(queue)
    BY <1>1, <1>2, <1>5, <2>2 DEF Placed
  <2>4. list[i].msgs = Cut(queue, off[i], off[i + 1])
    BY <1>2 DEF Placed
  <2>5. Len(Cut(queue, off[i], off[i + 1])) = off[i + 1] - off[i]
    BY <1>1, <2>3, CutFacts
  <2> QED BY <1>4, <2>4, <2>5
<1>7. SumFunctionOnSet(f, 1 .. Len(list)) = off[Len(list) + 1] - off[1]
  <2> DEFINE N == Len(list)
  <2>1. N \in Nat /\ (\A i \in 1 .. N + 1 : off[i] \in Int) /\ (\A i \in 1 .. N : f[i] = off[i + 1] - off[i])
    BY <1>5, <1>6
  <2> HIDE DEF N
  <2>2. SumFunctionOnSet(f, 1 .. N) = off[N + 1] - off[1]
    BY ONLY <2>1, SumTelescopes
  <2> QED BY <2>2 DEF N
<1>8. off[1] \in Nat /\ off[Len(list) + 1] \in Nat
  <2>1. 1 \in 1 .. Len(list) + 1 /\ Len(list) + 1 \in 1 .. Len(list) + 1
    BY <1>5
  <2> QED BY <1>5, <2>1
<1>9. Held(p, s) = n - off[1]
  BY <1>1, <1>3, <1>4, <1>5, <1>7, <1>8
<1>10. n - Held(p, s) = off[1]
  BY <1>1, <1>8, <1>9
<1> QED BY <1>10 DEF n

-----------------------------------------------------------------------------
(* The refinement *)

\* What the invariant says of a direction of a stream in terms of the queue:
\* off[1] messages were released, Seen were handled.
LaneFacts ==
  \A p \in Peer, s \in Stream : \A off : LosslessAt(p, s, off) =>
    /\ off[1] \in Nat /\ Seen(p, s, off) \in Nat
    /\ off[1] <= Seen(p, s, off) /\ Seen(p, s, off) <= sent[p][s]
    /\ delivered[Other(p)][s] = SubSeq(Outbox[p][s], 1, Seen(p, s, off))
    /\ Len(delivered[Other(p)][s]) = Seen(p, s, off)
    /\ sent[p][s] - Held(p, s) = off[1]

\* The facts follow from the invariant of the data.
LEMMA LaneFactsHold == DInv => LaneFacts
<1> SUFFICES ASSUME DInv, NEW p \in Peer, NEW s \in Stream, NEW off, LosslessAt(p, s, off)
             PROVE  /\ off[1] \in Nat /\ Seen(p, s, off) \in Nat
                    /\ off[1] <= Seen(p, s, off) /\ Seen(p, s, off) <= sent[p][s]
                    /\ delivered[Other(p)][s] = SubSeq(Outbox[p][s], 1, Seen(p, s, off))
                    /\ Len(delivered[Other(p)][s]) = Seen(p, s, off)
                    /\ sent[p][s] - Held(p, s) = off[1]
  BY DEF LaneFacts
<1> QED BY SeenFacts, HeldIs

\* And so they do in the next state.
LEMMA LaneFactsNext == DInv' => LaneFacts'
<1>1. DInv => LaneFacts
  BY LaneFactsHold
<1> QED BY <1>1, PTL

\* The variables of the abstract channel.
Lanes == Peer \X Stream
QueueOn == [l \in Lanes |-> Outbox[l[1]][l[2]]]
SentOn == [l \in Lanes |-> sent[l[1]][l[2]]]
ReceivedOn == [l \in Lanes |-> delivered[Other(l[1])][l[2]]]
ReleasedOn == [l \in Lanes |-> sent[l[1]][l[2]] - Held(l[1], l[2])]

\* One step in one lane: what was handled grows along the queue, and what was
\* released had been handled before.
LEMMA LaneOnward ==
  ASSUME IInv, DInv, CInv, Steady, [Next]_vars, NEW o \in Peer, NEW s \in Stream
  PROVE  /\ \E n \in Len(delivered[Other(o)][s]) .. sent'[o][s] :
              delivered'[Other(o)][s] = SubSeq(Outbox[o][s], 1, n)
         /\ sent'[o][s] - Held(o, s)' \in
              sent[o][s] - Held(o, s) .. Len(delivered[Other(o)][s])
<1>1. PICK off : LosslessAt(o, s, off)
  BY DEF CInv
<1>2. PICK off2 : Onward(o, s, off, off2)
  BY <1>1, StepOnward
<1>3. LaneFacts /\ LaneFacts'
  <2>1. DInv'
    BY NextDInv
  <2> QED BY <2>1, LaneFactsHold, LaneFactsNext
<1>4. /\ off[1] \in Nat /\ Seen(o, s, off) \in Nat
      /\ off[1] <= Seen(o, s, off)
      /\ Len(delivered[Other(o)][s]) = Seen(o, s, off)
      /\ sent[o][s] - Held(o, s) = off[1]
  BY <1>1, <1>3 DEF LaneFacts
<1>5. LosslessAt(o, s, off2)' /\ off2[1] \in {off[1], Seen(o, s, off)}
      /\ Seen(o, s, off) <= Seen(o, s, off2)'
  BY <1>2 DEF Onward
<1>6. /\ Seen(o, s, off2)' \in Nat /\ Seen(o, s, off2)' <= sent'[o][s]
      /\ delivered'[Other(o)][s] = SubSeq(Outbox[o][s], 1, Seen(o, s, off2)')
      /\ sent'[o][s] - Held(o, s)' = off2[1]
  BY <1>3, <1>5 DEF LaneFacts
<1>7. sent'[o][s] \in Nat
  <2>1. DInv'
    BY NextDInv
  <2> QED BY <2>1 DEF DInv, Histories
<1>8. Seen(o, s, off2)' \in Seen(o, s, off) .. sent'[o][s]
  BY <1>4, <1>5, <1>6, <1>7
<1>9. off2[1] \in off[1] .. Seen(o, s, off)
  BY <1>4, <1>5
<1> QED BY <1>4, <1>6, <1>8, <1>9

\* The abstract channel starts empty.
LEMMA InitImplements == Init => Channel!Init
<1> SUFFICES ASSUME Init PROVE Channel!Init
  OBVIOUS
<1>1. DInv /\ CInv
  BY InitDInv, InitCInv
<1>2. ASSUME NEW l \in Lanes
      PROVE  /\ SentOn[l] = 0 /\ ReceivedOn[l] = <<>> /\ ReleasedOn[l] = 0
  <2>1. l[1] \in Peer /\ l[2] \in Stream /\ Other(l[1]) \in Peer
    BY OtherOther DEF Lanes
  <2>2. SentOn[l] = 0 /\ ReceivedOn[l] = <<>> /\ sent[l[1]][l[2]] = 0
        /\ Len(delivered[Other(l[1])][l[2]]) = 0
    BY <2>1 DEF Init, NoLists, SentOn, ReceivedOn
  <2>3. PICK off : LosslessAt(l[1], l[2], off)
    BY <1>1, <2>1 DEF CInv
  <2>4. /\ off[1] \in Nat /\ off[1] <= Seen(l[1], l[2], off)
        /\ Len(delivered[Other(l[1])][l[2]]) = Seen(l[1], l[2], off)
        /\ sent[l[1]][l[2]] - Held(l[1], l[2]) = off[1]
    BY <1>1, <2>1, <2>3, LaneFactsHold DEF LaneFacts
  <2>5. sent[l[1]][l[2]] - Held(l[1], l[2]) = 0
    BY ONLY <2>2, <2>4
  <2> QED BY <2>2, <2>5 DEF ReleasedOn
<1>3. /\ SentOn = [l \in Lanes |-> 0] /\ ReceivedOn = [l \in Lanes |-> <<>>]
      /\ ReleasedOn = [l \in Lanes |-> 0]
  BY <1>2 DEF SentOn, ReceivedOn, ReleasedOn
<1> QED BY <1>3 DEF Channel!Init, Lanes, SentOn, ReceivedOn, ReleasedOn

\* A step that hands nothing over is a transfer, of nothing perhaps.
LEMMA TransferImplements ==
  ASSUME IInv, DInv, CInv, Steady, [Next]_vars, UNCHANGED sent
  PROVE  Channel!Transfer
<1>1. ASSUME NEW l \in Lanes
      PROVE  /\ \E n \in Len(ReceivedOn[l]) .. SentOn[l] : ReceivedOn'[l] = SubSeq(QueueOn[l], 1, n)
             /\ ReleasedOn'[l] \in ReleasedOn[l] .. Len(ReceivedOn[l])
  <2>1. l[1] \in Peer /\ l[2] \in Stream
    BY DEF Lanes
  <2>2. /\ \E n \in Len(delivered[Other(l[1])][l[2]]) .. sent'[l[1]][l[2]] :
              delivered'[Other(l[1])][l[2]] = SubSeq(Outbox[l[1]][l[2]], 1, n)
        /\ sent'[l[1]][l[2]] - Held(l[1], l[2])' \in
              sent[l[1]][l[2]] - Held(l[1], l[2]) .. Len(delivered[Other(l[1])][l[2]])
    BY <2>1, LaneOnward
  <2>3. /\ ReceivedOn[l] = delivered[Other(l[1])][l[2]]
        /\ ReceivedOn'[l] = delivered'[Other(l[1])][l[2]]
        /\ SentOn[l] = sent'[l[1]][l[2]] /\ QueueOn[l] = Outbox[l[1]][l[2]]
        /\ ReleasedOn[l] = sent[l[1]][l[2]] - Held(l[1], l[2])
        /\ ReleasedOn'[l] = sent'[l[1]][l[2]] - Held(l[1], l[2])'
    BY DEF ReceivedOn, SentOn, QueueOn, ReleasedOn, Other
  <2> QED BY ONLY <2>2, <2>3
<1>2. /\ DOMAIN ReceivedOn' = Lanes /\ DOMAIN ReleasedOn' = Lanes /\ SentOn' = SentOn
  BY DEF ReceivedOn, ReleasedOn, SentOn
<1> QED BY <1>1, <1>2 DEF Channel!Transfer, Lanes, SentOn, ReceivedOn, ReleasedOn, QueueOn

\* SendNetMsg and SendFile put the next message into their lane.
LEMMA SendImplements ==
  ASSUME DInv, CInv, NEW p \in Peer, SendNetMsg(p) \/ SendFile(p)
  PROVE  \E l \in Lanes : Channel!Send(l)
<1>1. PICK t \in Stream :
        /\ sent[p][t] < Len(Outbox[p][t])
        /\ sent' = [sent EXCEPT ![p][t] = @ + 1]
        /\ delivered' = delivered
  BY StreamsDiffer DEF SendNetMsg, SendFile
<1>2. /\ DOMAIN sent = Peer
      /\ \A o \in Peer : /\ DOMAIN sent[o] = Stream /\ \A s \in Stream : sent[o][s] \in Nat
  BY DEF DInv, Histories
<1>3. \A o \in Peer, s \in Stream :
        sent'[o][s] = IF <<o, s>> = <<p, t>> THEN sent[p][t] + 1 ELSE sent[o][s]
  BY <1>1, <1>2
<1> DEFINE l0 == <<p, t>>
<1>4. l0 \in Lanes /\ SentOn[l0] < Len(QueueOn[l0])
  BY <1>1 DEF Lanes, SentOn, QueueOn
<1>5. SentOn' = [SentOn EXCEPT ![l0] = @ + 1]
  <2>1. ASSUME NEW l \in Lanes
        PROVE  SentOn'[l] = IF l = l0 THEN SentOn[l0] + 1 ELSE SentOn[l]
    <3>1. l[1] \in Peer /\ l[2] \in Stream /\ l = <<l[1], l[2]>>
      BY DEF Lanes
    <3> QED BY <1>3, <1>4, <3>1 DEF SentOn
  <2>2. DOMAIN SentOn' = Lanes /\ DOMAIN SentOn = Lanes
    BY DEF SentOn
  <2> DEFINE new == [SentOn EXCEPT ![l0] = SentOn[l0] + 1]
  <2>3. DOMAIN new = Lanes /\ \A l \in Lanes : new[l] = IF l = l0 THEN SentOn[l0] + 1 ELSE SentOn[l]
    BY <1>4, <2>2
  <2>4. SentOn' = [l \in Lanes |-> SentOn'[l]] /\ new = [l \in Lanes |-> new[l]]
    BY <2>2, <2>3 DEF SentOn
  <2> HIDE DEF new
  <2>5. SentOn' = new
    BY ONLY <2>1, <2>3, <2>4
  <2> QED BY <2>5 DEF new
<1>6. ReceivedOn' = ReceivedOn
  BY <1>1 DEF ReceivedOn, Other
<1>7. ReleasedOn' = ReleasedOn
  <2>1. ASSUME NEW l \in Lanes PROVE ReleasedOn'[l] = ReleasedOn[l]
    <3>1. l[1] \in Peer /\ l[2] \in Stream
      BY DEF Lanes
    <3>2. PICK off : LosslessAt(l[1], l[2], off)
      BY <1>3, <3>1 DEF CInv
    <3>3. PICK off2 : Onward(l[1], l[2], off, off2) /\ off2[1] = off[1]
      <4>1. CASE SendNetMsg(p)
        BY <3>1, <3>2, <4>1, SendNetMsgOnward
      <4>2. CASE SendFile(p)
        BY <3>1, <3>2, <4>2, SendFileOnward
      <4> QED BY <4>1, <4>2
    <3>4. LaneFacts /\ LaneFacts'
      <4>1. DInv'
        BY SendNetMsgDInv, SendFileDInv
      <4> QED BY <4>1, LaneFactsHold, LaneFactsNext
    <3>5. LosslessAt(l[1], l[2], off2)'
      BY <3>3 DEF Onward
    <3>6. sent[l[1]][l[2]] - Held(l[1], l[2]) = off[1]
      BY <3>1, <3>2, <3>4 DEF LaneFacts
    <3>7. sent'[l[1]][l[2]] - Held(l[1], l[2])' = off2[1]
      BY <3>1, <3>4, <3>5 DEF LaneFacts
    <3>8. /\ ReleasedOn[l] = sent[l[1]][l[2]] - Held(l[1], l[2])
          /\ ReleasedOn'[l] = sent'[l[1]][l[2]] - Held(l[1], l[2])'
      BY DEF ReleasedOn
    <3> QED BY ONLY <3>3, <3>6, <3>7, <3>8
  <2> QED BY <2>1 DEF ReleasedOn
<1>8. Channel!Send(l0)
  BY <1>4, <1>5, <1>6, <1>7 DEF Channel!Send, Lanes, SentOn, ReceivedOn, ReleasedOn, QueueOn
<1> QED BY <1>4, <1>8

\* Every step is one of the abstract channel.
LEMMA NextImplements ==
  ASSUME IInv, DInv, CInv, Steady, [Next]_vars
  PROVE  [Channel!Next]_(Channel!channelVars)
<1>1. CASE \E p \in Peer : SendNetMsg(p) \/ SendFile(p)
  <2>1. \E l \in Lanes : Channel!Send(l)
    BY <1>1, SendImplements
  <2> QED BY <2>1 DEF Channel!Next, Lanes
<1>2. CASE ~\E p \in Peer : SendNetMsg(p) \/ SendFile(p)
  <2>1. UNCHANGED sent
    <3>1. CASE UNCHANGED vars
      BY <3>1 DEF vars, historyVars
    <3>2. ASSUME NEW p \in Peer,
                 \/ SetChoked(p) \/ SendDatagram(p) \/ Clear(p)
                 \/ \E q \in net[p] : ProcessPacket(p, q)
          PROVE  UNCHANGED sent
      <4>1. CASE SetChoked(p)
        BY <4>1 DEF SetChoked
      <4>2. CASE SendDatagram(p)
        BY <4>2 DEF SendDatagram, historyVars
      <4>3. CASE Clear(p)
        BY <4>3 DEF Clear
      <4>4. CASE \E q \in net[p] : ProcessPacket(p, q)
        BY <4>4 DEF ProcessPacket
      <4> QED BY <3>2, <4>1, <4>2, <4>3, <4>4
    <3> QED BY <1>2, <3>1, <3>2 DEF Next
  <2>2. Channel!Transfer
    BY <2>1, TransferImplements
  <2> QED BY <2>2 DEF Channel!Next
<1> QED BY <1>1, <1>2

-----------------------------------------------------------------------------
(* The theorems *)

\* While nobody calls Clear, no handler fails and a direction uses one stream,
\* CNetChan is a lossless queue: the handlers see what was put into a stream, in
\* order and each message once, and the sender drops a message only after the
\* other end has handled it, whatever the network loses, repeats or delays.
THEOREM ChannelImplemented ==
  ASSUME Steady
  PROVE  Spec => ImplementsChannel
<1>1. IInv /\ DInv /\ CInv /\ [Next]_vars => IInv' /\ DInv' /\ CInv'
  BY NextIInv, NextDInv, NextCInv
<1>2. IInv /\ DInv /\ CInv /\ [Next]_vars => [Channel!Next]_(Channel!channelVars)
  BY NextImplements
<1> QED
  BY InitIInv, InitDInv, InitCInv, InitImplements, <1>1, <1>2, PTL
    DEF Spec, ImplementsChannel, Channel!Spec

\* Under the same conditions a receive buffer never holds fragments of two
\* items: the fragment numbers of a header belong to the item the buffer was
\* opened for.
THEOREM BuffersOfOneItem ==
  ASSUME Steady
  PROVE  Spec => []FragmentsOfOneItem
<1>1. IInv /\ DInv /\ CInv /\ [Next]_vars => IInv' /\ DInv' /\ CInv'
  BY NextIInv, NextDInv, NextCInv
<1>2. DInv /\ CInv => FragmentsOfOneItem
  <2> SUFFICES ASSUME DInv, CInv, NEW p \in Peer, NEW s \in Stream, receiveList[p][s] # NoBuffer
               PROVE  \A i \in DOMAIN receiveList[p][s].buf :
                        receiveList[p][s].buf[i] \in {Junk, receiveList[p][s].item}
    BY DEF FragmentsOfOneItem
  <2> DEFINE o == Other(p)
  <2>1. o \in Peer /\ Other(o) = p
    BY OtherOther
  <2> HIDE DEF o
  <2>2. PICK off : LosslessAt(o, s, off)
    BY <2>1 DEF CInv
  <2>3. /\ Fragmented(sub[o]) /\ Waiting(waitingList[o][s])
        /\ Carry(sub[o], s, waitingList[o][s]) /\ Unread(o, s) \in SUBSET Flight(sub[o], s)
    BY <2>1, Direction
  <2>4. Follows(sub[o], s, Unread(o, s), waitingList[o][s], receiveList[p][s])
    BY <2>1, <2>2 DEF LosslessAt, Conveyed
  <2> QED BY <2>3, <2>4, ConveyedIncomplete
<1> QED
  BY InitIInv, InitDInv, InitCInv, <1>1, <1>2, PTL DEF Spec

=============================================================================
