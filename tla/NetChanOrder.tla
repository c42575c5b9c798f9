---------------------------- MODULE NetChanOrder ----------------------------
(***************************************************************************)
(* The order that NetChan keeps with Clear and two streams                 *)
(* (HandledInOrder), on top of the invariants of NetChanProofs. The        *)
(* messages of a queue are handled in its order, though not all of them,   *)
(* because four things follow each other in the queue: what was handled    *)
(* (its first h messages), the item in the receive buffer (up to m), the   *)
(* items whose first fragment is under way in a datagram, and what the     *)
(* sender still has to open at the other end (from Front on). Clear only   *)
(* makes gaps between them.                                                *)
(***************************************************************************)
EXTENDS NetChanProofs

\* What was handled but for garbled messages, in the order of the first h of a queue.
Genuine(seen) == {i \in DOMAIN seen : seen[i] # Garbled}
Ascending(seen, queue, h) ==
  \E f \in [Genuine(seen) -> 1 .. h] :
    /\ \A i \in Genuine(seen) : seen[i] = queue[f[i]]
    /\ \A i, j \in Genuine(seen) : i < j => f[i] < f[j]

\* The first fragment of the head has not reached the other end, where U is what
\* that end has not taken of the flight.
Unopen(subs, s, U, head) == SentFragments(head) = 0 \/ \E c \in U : subs[c].start[s] = 0

\* The place in the queue from which on items are still to be opened.
Front(subs, s, U, list, off) ==
  IF list # <<>> /\ ~Unopen(subs, s, U, list[1]) THEN off[2] ELSE off[1]

\* An item that ends at k and was sent on subchannel c is before the waiting
\* list, or is its head and c has the first fragment.
Passed(subs, s, off, c, k) ==
  \/ k <= off[1]
  \/ c \in Flight(subs, s) /\ subs[c].start[s] = 0 /\ k <= off[2]

\* The receiver's side: h messages of the queue are handled, m opened.
Ordered(queue, r, seen, front, h, m) ==
  /\ h \in Nat /\ m \in Nat /\ h <= m /\ m <= front
  /\ Ascending(seen, queue, h)
  /\ r # NoBuffer => \E a, b \in h .. m : a <= b /\ r.item = Cut(queue, a, b)

\* The datagrams that open items: each has the messages of the queue behind
\* at[d.seq] up to to[d.seq], which are behind those of the datagrams before it.
Travels(D, s, queue, subs, off, m, at, to) ==
  /\ at \in [Nat -> Nat] /\ to \in [Nat -> Nat]
  /\ \A d \in D : /\ m <= at[d.seq] /\ at[d.seq] <= to[d.seq]
                  /\ d.data[s].item = Cut(queue, at[d.seq], to[d.seq])
                  /\ Passed(subs, s, off, d.sub, to[d.seq])
  /\ \A d, e \in D : d.seq < e.seq => to[d.seq] <= at[e.seq]

-----------------------------------------------------------------------------
(* What the handlers have seen *)

\* More messages may be sent than were handled.
LEMMA AscendingWider ==
  ASSUME NEW seen, NEW queue, NEW h \in Nat, Ascending(seen, queue, h), NEW k \in Nat, h <= k
  PROVE  Ascending(seen, queue, k)
<1>1. PICK f \in [Genuine(seen) -> 1 .. h] :
        /\ \A i \in Genuine(seen) : seen[i] = queue[f[i]]
        /\ \A i, j \in Genuine(seen) : i < j => f[i] < f[j]
  BY DEF Ascending
<1>2. 1 .. h \subseteq 1 .. k
  OBVIOUS
<1>3. f \in [Genuine(seen) -> 1 .. k]
  BY <1>1, <1>2
<1> QED BY <1>1, <1>3 DEF Ascending

\* A garbled message counts as none.
LEMMA AscendingGarbled ==
  ASSUME NEW seen \in Seq(Msg \cup {Garbled}), NEW queue, NEW h, Ascending(seen, queue, h)
  PROVE  Ascending(seen \o <<Garbled>>, queue, h)
<1> DEFINE seen2 == seen \o <<Garbled>>
<1>1. /\ Len(seen2) = Len(seen) + 1 /\ Len(seen) \in Nat
      /\ \A i \in 1 .. Len(seen) : seen2[i] = seen[i]
      /\ seen2[Len(seen) + 1] = Garbled
      /\ DOMAIN seen = 1 .. Len(seen) /\ DOMAIN seen2 = 1 .. Len(seen) + 1
  OBVIOUS
<1> HIDE DEF seen2
<1>2. /\ Genuine(seen2) = Genuine(seen)
      /\ \A i \in Genuine(seen) : seen2[i] = seen[i]
  BY <1>1 DEF Genuine
<1> QED BY <1>2 DEF Ascending, seen2

\* Messages of the queue behind those handled before.
LEMMA AscendingMore ==
  ASSUME NEW seen \in Seq(Msg \cup {Garbled}), NEW queue, NEW h \in Nat, Ascending(seen, queue, h),
         NEW a \in Nat, h <= a, NEW x \in Seq(Msg), \A i \in 1 .. Len(x) : x[i] = queue[a + i],
         NEW b \in Nat, a + Len(x) <= b
  PROVE  Ascending(seen \o x, queue, b)
<1> DEFINE seen2 == seen \o x
           n == Len(seen)
<1>1. /\ n \in Nat /\ Len(x) \in Nat
      /\ DOMAIN seen = 1 .. n /\ DOMAIN seen2 = 1 .. n + Len(x)
      /\ \A i \in 1 .. n : seen2[i] = seen[i]
      /\ \A i \in n + 1 .. n + Len(x) : seen2[i] = x[i - n] /\ i - n \in 1 .. Len(x)
  OBVIOUS
<1>2. PICK f \in [Genuine(seen) -> 1 .. h] :
        /\ \A i \in Genuine(seen) : seen[i] = queue[f[i]]
        /\ \A i, j \in Genuine(seen) : i < j => f[i] < f[j]
  BY DEF Ascending
<1> DEFINE g == [i \in Genuine(seen2) |-> IF i <= n THEN f[i] ELSE a + (i - n)]
<1> HIDE DEF seen2, n
<1>3. ASSUME NEW i \in Genuine(seen2)
      PROVE  \/ i \in 1 .. n /\ i \in Genuine(seen) /\ g[i] = f[i] /\ g[i] \in 1 .. h
                /\ seen2[i] = queue[g[i]]
             \/ i \in n + 1 .. n + Len(x) /\ g[i] = a + (i - n) /\ g[i] \in a + 1 .. b
                /\ seen2[i] = queue[g[i]]
  <2>1. i \in 1 .. n + Len(x) /\ seen2[i] # Garbled
    BY <1>1 DEF Genuine
  <2>2. CASE i <= n
    <3>1. i \in 1 .. n
      BY <1>1, <2>1, <2>2
    <3>2. i \in Genuine(seen)
      BY <1>1, <2>1, <3>1 DEF Genuine
    <3> QED BY <1>1, <1>2, <2>2, <3>1, <3>2
  <2>3. CASE ~(i <= n)
    <3>1. i \in n + 1 .. n + Len(x)
      BY <1>1, <2>1, <2>3
    <3>2. g[i] = a + (i - n)
      BY <2>3
    <3>3. g[i] \in a + 1 .. b
      BY <1>1, <3>1, <3>2
    <3> HIDE DEF g
    <3>4. seen2[i] = queue[a + (i - n)]
      BY <1>1, <3>1
    <3> QED BY <3>1, <3>2, <3>3, <3>4
  <2> QED BY <2>2, <2>3
<1>4. g \in [Genuine(seen2) -> 1 .. b]
  <2>1. \A i \in Genuine(seen2) : g[i] \in 1 .. b
    <3> HIDE DEF g
    <3>1. Len(x) \in Nat
      BY <1>1
    <3> QED BY <1>3, <3>1
  <2> QED BY <2>1
<1>5. \A i \in Genuine(seen2) : seen2[i] = queue[g[i]]
  BY <1>3
<1>6. \A i, j \in Genuine(seen2) : i < j => g[i] < g[j]
  <2> SUFFICES ASSUME NEW i \in Genuine(seen2), NEW j \in Genuine(seen2), i < j
               PROVE  g[i] < g[j]
    OBVIOUS
  <2> HIDE DEF g
  <2>1. CASE i \in n + 1 .. n + Len(x)
    BY <1>1, <1>3, <2>1
  <2>2. CASE i \in Genuine(seen) /\ i \in 1 .. n /\ g[i] = f[i]
    <3>1. CASE j \in Genuine(seen) /\ g[j] = f[j]
      BY <1>2, <2>2, <3>1
    <3>2. CASE g[j] \in a + 1 .. b
      <4>1. f[i] \in 1 .. h
        BY <1>2, <2>2
      <4> QED BY <2>2, <3>2, <4>1
    <3> QED BY <1>3, <3>1, <3>2
  <2> QED BY <1>3, <2>1, <2>2
<1> QED
  <2> HIDE DEF g
  <2>1. Ascending(seen2, queue, b)
    BY <1>4, <1>5, <1>6 DEF Ascending
  <2> QED BY <2>1 DEF seen2

\* The messages of a cut.
LEMMA CutElements ==
  ASSUME NEW queue \in Seq(Msg), NEW a \in Nat, NEW b \in Nat, a <= b, b <= Len(queue)
  PROVE  \A i \in 1 .. Len(Cut(queue, a, b)) : Cut(queue, a, b)[i] = queue[a + i]
<1>1. Len(Cut(queue, a, b)) = b - a
  BY CutFacts
<1>2. ASSUME NEW i \in 1 .. b - a PROVE Cut(queue, a, b)[i] = queue[a + i]
  <2>1. SubSeq(queue, a + 1, b)[i] = queue[(a + 1) + i - 1]
    <3>1. i \in 1 .. (b - (a + 1) + 1)
      OBVIOUS
    <3> QED BY <3>1
  <2>2. (a + 1) + i - 1 = a + i
    OBVIOUS
  <2> QED BY <2>1, <2>2 DEF Cut
<1> QED BY <1>1, <1>2

\* What the handlers see of an item of the queue behind those they have seen.
LEMMA HandledAscending ==
  ASSUME NEW r, Allocated(r), NEW seen \in Seq(Msg \cup {Garbled}), NEW queue \in Seq(Msg),
         NEW h \in Nat, Ascending(seen, queue, h),
         NEW a \in Nat, NEW b \in Nat, h <= a, a <= b, b <= Len(queue), r.item = Cut(queue, a, b)
  PROVE  /\ Ascending(seen \o Handled(r), queue, b)
         /\ ~Intact(r) => Ascending(seen \o Handled(r), queue, h)
<1>1. CASE ~Intact(r)
  <2>1. Handled(r) = <<Garbled>>
    BY <1>1 DEF Handled
  <2>2. Ascending(seen \o <<Garbled>>, queue, h)
    BY AscendingGarbled
  <2>3. h <= b
    OBVIOUS
  <2>4. Ascending(seen \o <<Garbled>>, queue, b)
    BY <2>2, <2>3, AscendingWider
  <2> QED BY <2>1, <2>2, <2>4
<1>2. CASE Intact(r)
  <2>1. /\ r.item \in Seq(Msg) /\ Len(r.item) = b - a
        /\ \A i \in 1 .. Len(r.item) : r.item[i] = queue[a + i]
    <3> DEFINE cut == Cut(queue, a, b)
    <3>1. cut \in Seq(Msg) /\ Len(cut) = b - a
      BY CutFacts
    <3>2. \A i \in 1 .. Len(cut) : cut[i] = queue[a + i]
      BY CutElements
    <3>3. r.item = cut
      OBVIOUS
    <3> HIDE DEF cut
    <3> QED BY ONLY <3>1, <3>2, <3>3
  <2>2. PICK k \in 0 .. Len(r.item) : Handled(r) = r.item \/ Handled(r) = SubSeq(r.item, 1, k)
    <3>1. CASE r.file \/ Stoppers(r) = {}
      <4>1. 0 \in 0 .. Len(r.item)
        BY <2>1
      <4> QED BY <1>2, <3>1, <4>1 DEF Handled
    <3>2. CASE ~(r.file \/ Stoppers(r) = {})
      <4>1. Stoppers(r) \subseteq 1 .. Len(r.item)
        BY <2>1 DEF Stoppers
      <4>2. Stoppers(r) \in SUBSET Nat
        BY <2>1, <4>1
      <4>3. First(Stoppers(r)) \in 0 .. Len(r.item)
        BY <2>1, <3>2, <4>1, <4>2, FirstIsLeast
      <4> QED BY <1>2, <3>2, <4>3 DEF Handled
    <3> QED BY <3>1, <3>2
  <2> DEFINE x == Handled(r)
  <2>3. x \in Seq(Msg) /\ a + Len(x) <= b /\ \A i \in 1 .. Len(x) : x[i] = queue[a + i]
    <3>1. CASE x = r.item
      BY <2>1, <3>1
    <3>2. CASE x = SubSeq(r.item, 1, k)
      <4> DEFINE y == SubSeq(r.item, 1, k)
      <4>1. y \in Seq(Msg) /\ Len(y) = k /\ \A i \in 1 .. k : y[i] = r.item[i]
        BY <2>1
      <4> HIDE DEF y, x
      <4>2. x = y
        BY <3>2 DEF y
      <4>3. \A i \in 1 .. k : y[i] = queue[a + i]
        BY <2>1, <4>1
      <4>4. a + k <= b
        BY <2>1
      <4> QED BY <4>1, <4>2, <4>3, <4>4
    <3> QED BY <2>2, <3>1, <3>2
  <2> HIDE DEF x
  <2>4. Ascending(seen \o x, queue, b)
    BY <2>3, AscendingMore
  <2> QED BY <1>2, <2>4 DEF x
<1> QED BY <1>1, <1>2

-----------------------------------------------------------------------------
(* Where the sender is *)

\* The places are numbers in order.
LEMMA FrontFacts ==
  ASSUME NEW list, Waiting(list), NEW queue \in Seq(Msg), NEW n \in Nat, n <= Len(queue),
         NEW off, NEW buffered, Placed(list, off, queue, buffered, n), NEW subs, NEW s, NEW U
  PROVE  /\ off[1] \in Nat /\ off[1] <= n
         /\ list # <<>> => off[2] \in Nat /\ off[1] < off[2] /\ off[2] <= n
         /\ Front(subs, s, U, list, off) \in Nat /\ off[1] <= Front(subs, s, U, list, off)
         /\ Front(subs, s, U, list, off) <= n
         /\ list # <<>> => Front(subs, s, U, list, off) <= off[2]
<1>1. /\ off[1] \in Nat /\ off[1] <= n
      /\ list # <<>> => off[2] \in Nat /\ off[1] < off[2] /\ off[2] <= n
  <2>1. /\ off[1] \in Nat /\ off[1] <= n
        /\ HandledOf(list, off, U) \in Nat
        /\ off[1] <= HandledOf(list, off, U) /\ HandledOf(list, off, U) <= n
        /\ list # <<>> => off[2] \in Nat /\ off[1] < off[2] /\ off[2] <= n
    BY HandledFacts
  <2> QED BY <2>1
<1> QED BY <1>1 DEF Front

\* What was sent of a list belongs to its head.
LEMMA PassedBound ==
  ASSUME NEW list, Waiting(list), NEW queue \in Seq(Msg), NEW n \in Nat, n <= Len(queue),
         NEW off, NEW buffered, Placed(list, off, queue, buffered, n),
         NEW subs, NEW s, Carry(subs, s, list), NEW c, NEW k \in Nat, Passed(subs, s, off, c, k)
  PROVE  k <= n
<1>1. /\ off[1] \in Nat /\ off[1] <= n
      /\ list # <<>> => off[2] \in Nat /\ off[1] < off[2] /\ off[2] <= n
  BY FrontFacts
<1>2. c \in Flight(subs, s) => list # <<>>
  BY DEF Carry
<1> QED BY <1>1, <1>2 DEF Passed

\* More behind a head that stays, or a first item: the sender is where it was.
LEMMA FrontStays ==
  ASSUME NEW subs, NEW s, NEW U, NEW list, NEW list2, HeadStays(list, list2),
         NEW off, NEW off2, PlacesStay(list, off, off2)
  PROVE  Front(subs, s, U, list2, off2) = Front(subs, s, U, list, off)
<1>1. CASE list = <<>>
  BY <1>1 DEF HeadStays, PlacesStay, Front, Unopen
<1>2. CASE list # <<>>
  <2>1. list2 # <<>> /\ (Unopen(subs, s, U, list2[1]) <=> Unopen(subs, s, U, list[1]))
    BY <1>2 DEF HeadStays, Unopen
  <2>2. off2[1] = off[1] /\ off2[2] = off[2]
    BY <1>2 DEF PlacesStay
  <2> QED BY <1>2, <2>1, <2>2 DEF Front
<1> QED BY <1>1, <1>2

\* And so is what was sent.
LEMMA PassedStays ==
  ASSUME NEW subs, NEW s, NEW list, Carry(subs, s, list), NEW off, NEW off2,
         PlacesStay(list, off, off2), NEW c, NEW k, Passed(subs, s, off, c, k)
  PROVE  Passed(subs, s, off2, c, k)
<1>1. c \in Flight(subs, s) => list # <<>>
  BY DEF Carry
<1> QED BY <1>1 DEF Passed, PlacesStay

\* An item of which the first fragment has come is not opened again, whatever of
\* it is sent or read: the sender is not behind where it was.
LEMMA FrontGrows ==
  ASSUME NEW list, Waiting(list), NEW queue \in Seq(Msg), NEW n \in Nat, n <= Len(queue),
         NEW off, NEW buffered, Placed(list, off, queue, buffered, n),
         NEW subs, NEW subs2, NEW s, NEW U, NEW U2, NEW list2, list = <<>> <=> list2 = <<>>,
         list # <<>> /\ Unopen(subs2, s, U2, list2[1]) => Unopen(subs, s, U, list[1])
  PROVE  /\ Front(subs2, s, U2, list2, off) \in Nat
         /\ Front(subs, s, U, list, off) <= Front(subs2, s, U2, list2, off)
<1>1. /\ off[1] \in Nat /\ off[1] <= n
      /\ list # <<>> => off[2] \in Nat /\ off[1] < off[2] /\ off[2] <= n
  BY FrontFacts
<1> QED BY <1>1 DEF Front

\* Only one of the subchannels that carry a head has its first fragment.
LEMMA OneFirst ==
  ASSUME NEW subs, NEW s \in Stream, Fragmented(subs), NEW list, Carry(subs, s, list),
         NEW c \in Flight(subs, s), NEW d \in Flight(subs, s),
         subs[c].start[s] = 0, subs[d].start[s] = 0
  PROVE  c = d
<1>1. CarryHead(subs, s, list[1])
  BY DEF Carry
<1>2. /\ c \in SubChannel /\ d \in SubChannel /\ subs[c].num[s] > 0 /\ subs[d].num[s] > 0
      /\ subs[c].num[s] \in Int /\ subs[d].num[s] \in Int
  BY SizeAssumption DEF Flight, Fragmented
<1> QED BY <1>1, <1>2 DEF CarryHead

\* Once it is read the head is open.
LEMMA FirstTaken ==
  ASSUME NEW subs, NEW s \in Stream, Fragmented(subs), NEW list, Waiting(list),
         Carry(subs, s, list), NEW c \in Flight(subs, s), subs[c].start[s] = 0,
         NEW U \in SUBSET Flight(subs, s), c \notin U, NEW off
  PROVE  list # <<>> /\ Front(subs, s, U, list, off) = off[2]
<1>1. list # <<>>
  BY DEF Carry
<1>2. \A d \in U : subs[d].start[s] # 0
  BY OneFirst
<1>3. SentFragments(list[1]) # 0
  <2> DEFINE h == list[1]
  <2>1. CarryHead(subs, s, h) /\ h \in Item
    BY <1>1 DEF Carry, Waiting
  <2>2. subs[c].num[s] > 0 /\ subs[c].num[s] \in Int
    BY SizeAssumption DEF Flight, Fragmented
  <2> HIDE DEF h
  <2>3. SentFragments(h) \in Nat
    BY <2>1, ItemFields
  <2>4. 0 + subs[c].num[s] <= SentFragments(h)
    BY <2>1 DEF CarryHead
  <2> QED BY <2>2, <2>3, <2>4 DEF h
<1> QED BY <1>1, <1>2, <1>3 DEF Front, Unopen

-----------------------------------------------------------------------------
(* What the receiver has *)

\* The sender goes on, and Clear may free the buffer.
LEMMA OrderedWider ==
  ASSUME NEW queue, NEW r, NEW seen, NEW front \in Nat, NEW h, NEW m,
         Ordered(queue, r, seen, front, h, m),
         NEW front2 \in Nat, front <= front2, NEW r2 \in {r, NoBuffer}
  PROVE  Ordered(queue, r2, seen, front2, h, m)
BY DEF Ordered

\* A fragment is read: a first one opens the buffer for an item of the queue
\* behind all that was opened before, any other leaves it its item.
LEMMA ReadOrdered ==
  ASSUME NEW r, r = NoBuffer \/ Allocated(r), NEW d, Piece(d), CanRead(r, d),
         NEW queue, NEW seen, NEW front \in Nat, NEW h, NEW m,
         Ordered(queue, r, seen, front, h, m),
         NEW front2 \in Nat, front <= front2, NEW m2,
         d.start # 0 => m2 = m,
         d.start = 0 => /\ m2 \in Nat /\ m2 <= front2
                        /\ \E a \in Nat : m <= a /\ a <= m2 /\ d.item = Cut(queue, a, m2)
  PROVE  Ordered(queue, ReadData(r, d), seen, front2, h, m2)
<1> DEFINE r2 == ReadData(r, d)
<1>1. /\ d.start = 0 => r2.item = d.item
      /\ d.start # 0 => Allocated(r) /\ r2.item = r.item
  BY BufferRead
<1> HIDE DEF r2
<1>2. h \in Nat /\ m \in Nat /\ h <= m /\ m <= front /\ Ascending(seen, queue, h)
  BY DEF Ordered
<1>3. CASE d.start = 0
  <2>1. PICK a \in Nat : m <= a /\ a <= m2 /\ d.item = Cut(queue, a, m2)
    BY <1>3
  <2>2. m2 \in Nat /\ m2 <= front2 /\ h <= m2
    BY <1>2, <1>3, <2>1
  <2>3. a \in h .. m2 /\ m2 \in h .. m2
    BY <1>2, <2>1, <2>2
  <2>4. \E e, b \in h .. m2 : e <= b /\ r2.item = Cut(queue, e, b)
    BY <1>1, <1>3, <2>1, <2>3
  <2> QED BY <1>2, <2>2, <2>4 DEF Ordered, r2
<1>4. CASE d.start # 0
  <2>1. r # NoBuffer
    BY <1>1, <1>4, NotEmpty
  <2>2. \E a, b \in h .. m : a <= b /\ r.item = Cut(queue, a, b)
    BY <2>1 DEF Ordered
  <2>3. \E a, b \in h .. m : a <= b /\ r2.item = Cut(queue, a, b)
    BY <1>1, <1>4, <2>2
  <2>4. m2 = m /\ m <= front2
    BY <1>2, <1>4
  <2> QED BY <1>2, <2>3, <2>4 DEF Ordered, r2
<1> QED BY <1>3, <1>4

\* The handlers see a buffer, which is freed unless it is garbled, or Clear frees it.
LEMMA DeliveredOrdered ==
  ASSUME NEW r, r = NoBuffer \/ Allocated(r), NEW seen \in Seq(Msg \cup {Garbled}),
         NEW queue \in Seq(Msg), NEW front \in Nat, front <= Len(queue), NEW h, NEW m,
         Ordered(queue, r, seen, front, h, m),
         NEW r2 \in {r, NoBuffer}, NEW seen2,
         \/ seen2 = seen
         \/ r # NoBuffer /\ seen2 = seen \o Handled(r) /\ (r2 = NoBuffer \/ ~Intact(r))
  PROVE  \E k : Ordered(queue, r2, seen2, front, k, m)
<1>1. h \in Nat /\ m \in Nat /\ h <= m /\ m <= front /\ Ascending(seen, queue, h)
  BY DEF Ordered
<1>2. CASE seen2 = seen
  <2>1. front <= front
    OBVIOUS
  <2>2. Ordered(queue, r2, seen, front, h, m)
    BY <2>1, OrderedWider
  <2> QED BY <1>2, <2>2
<1>3. CASE r # NoBuffer /\ seen2 = seen \o Handled(r) /\ (r2 = NoBuffer \/ ~Intact(r))
  <2>1. PICK a \in h .. m, b \in h .. m : a <= b /\ r.item = Cut(queue, a, b)
    BY <1>3 DEF Ordered
  <2>2. a \in Nat /\ b \in Nat /\ h <= a /\ h <= b /\ b <= m /\ b <= Len(queue)
    BY <1>1, <2>1
  <2>3. Allocated(r)
    BY <1>3
  <2>4. /\ Ascending(seen \o Handled(r), queue, b)
        /\ ~Intact(r) => Ascending(seen \o Handled(r), queue, h)
    BY <1>1, <2>1, <2>2, <2>3, HandledAscending
  <2>5. CASE r2 = NoBuffer
    <3>1. Ordered(queue, r2, seen2, front, b, m)
      BY <1>1, <1>3, <2>2, <2>4, <2>5 DEF Ordered
    <3> QED BY <3>1
  <2>6. CASE r2 # NoBuffer
    <3>1. Ordered(queue, r2, seen2, front, h, m)
      BY <1>1, <1>3, <2>4, <2>6 DEF Ordered
    <3> QED BY <3>1
  <2> QED BY <2>5, <2>6
<1> QED BY <1>2, <1>3

-----------------------------------------------------------------------------
(* What is under way *)

\* Fewer datagrams, a sender that has gone on, and perhaps more opened.
LEMMA TravelsOn ==
  ASSUME NEW D, NEW s, NEW queue, NEW subs, NEW off, NEW m, NEW at, NEW to,
         Travels(D, s, queue, subs, off, m, at, to), \A d \in D : d.seq \in Nat,
         NEW D2 \in SUBSET D, NEW subs2, NEW off2,
         \A d \in D2 : \A k \in Nat : Passed(subs, s, off, d.sub, k) => Passed(subs2, s, off2, d.sub, k),
         NEW m2, \A d \in D2 : m2 <= at[d.seq]
  PROVE  Travels(D2, s, queue, subs2, off2, m2, at, to)
<1>1. \A d \in D2 : to[d.seq] \in Nat
  BY DEF Travels
<1>2. \A d \in D2 : Passed(subs2, s, off2, d.sub, to[d.seq])
  BY <1>1 DEF Travels
<1> QED BY <1>2 DEF Travels

\* One more, with the next item behind all others.
LEMMA TravelsGains ==
  ASSUME NEW D, NEW s, NEW queue, NEW subs, NEW off, NEW m, NEW at, NEW to,
         Travels(D, s, queue, subs, off, m, at, to), \A d \in D : d.seq \in Nat,
         NEW d0, d0.seq \in Nat, \A d \in D : d.seq < d0.seq,
         NEW a \in Nat, NEW b \in Nat, m <= a, a <= b, d0.data[s].item = Cut(queue, a, b),
         \A d \in D : to[d.seq] <= a, Passed(subs, s, off, d0.sub, b),
         NEW D2 \in SUBSET (D \cup {d0})
  PROVE  Travels(D2, s, queue, subs, off, m,
                 [at EXCEPT ![d0.seq] = a], [to EXCEPT ![d0.seq] = b])
<1> DEFINE at2 == [at EXCEPT ![d0.seq] = a]
<1> DEFINE to2 == [to EXCEPT ![d0.seq] = b]
<1>1. at \in [Nat -> Nat] /\ to \in [Nat -> Nat]
  BY DEF Travels
<1>2. at2 \in [Nat -> Nat] /\ to2 \in [Nat -> Nat] /\ at2[d0.seq] = a /\ to2[d0.seq] = b
  BY <1>1
<1>3. \A d \in D : at2[d.seq] = at[d.seq] /\ to2[d.seq] = to[d.seq] /\ d.seq # d0.seq
  BY <1>1
<1> HIDE DEF at2, to2
<1>4. \A d \in D2 : /\ m <= at2[d.seq] /\ at2[d.seq] <= to2[d.seq]
                    /\ d.data[s].item = Cut(queue, at2[d.seq], to2[d.seq])
                    /\ Passed(subs, s, off, d.sub, to2[d.seq])
  <2> SUFFICES ASSUME NEW d \in D2
               PROVE  /\ m <= at2[d.seq] /\ at2[d.seq] <= to2[d.seq]
                      /\ d.data[s].item = Cut(queue, at2[d.seq], to2[d.seq])
                      /\ Passed(subs, s, off, d.sub, to2[d.seq])
    OBVIOUS
  <2>1. CASE d = d0
    BY <1>2, <2>1
  <2>2. CASE d \in D
    BY <1>3, <2>2 DEF Travels
  <2> QED BY <2>1, <2>2
<1>5. ASSUME NEW d \in D2, NEW e \in D2, d.seq < e.seq PROVE to2[d.seq] <= at2[e.seq]
  <2>1. CASE d \in D /\ e \in D
    BY <1>3, <1>5, <2>1 DEF Travels
  <2>2. CASE d \in D /\ e = d0
    BY <1>2, <1>3, <2>2
  <2>3. CASE d = d0
    <3>1. e \in D \/ e = d0
      OBVIOUS
    <3>2. d0.seq < e.seq
      BY <1>5, <2>3
    <3> QED BY <3>1, <3>2
  <2>4. (d \in D \/ d = d0) /\ (e \in D \/ e = d0)
    OBVIOUS
  <2> QED BY <2>1, <2>2, <2>3, <2>4
<1>6. Travels(D2, s, queue, subs, off, m, at2, to2)
  BY <1>2, <1>4, <1>5 DEF Travels
<1> QED BY <1>6 DEF at2, to2

-----------------------------------------------------------------------------
(* The invariant of the order, on top of IInv and DInv *)

\* The datagrams that, if they come next, open an item at the other end.
Openers(p, s) ==
  {d \in net[Other(p)] : /\ Fresh(Other(p), d) /\ d.sub # NoSub
                         /\ Carries(d, s) /\ d.data[s].start = 0}
FrontOf(p, s, off) == Front(sub[p], s, Unread(p, s), waitingList[p][s], off)
PlacedOf(p, s, off) ==
  Placed(waitingList[p][s], off, Outbox[p][s], Buffered(p, s), sent[p][s])

InOrder(p, s, off, h, m, at, to) ==
  /\ PlacedOf(p, s, off)
  /\ Ordered(Outbox[p][s], receiveList[Other(p)][s], delivered[Other(p)][s], FrontOf(p, s, off), h, m)
  /\ Travels(Openers(p, s), s, Outbox[p][s], sub[p], off, m, at, to)

OInv ==
  \A p \in Peer, s \in Stream : Other(p) \notin torn =>
    \E off, h, m, at, to : InOrder(p, s, off, h, m, at, to)

\* What is under way has a number.
LEMMA OpenersFacts ==
  ASSUME IInv, NEW p \in Peer, NEW s
  PROVE  \A d \in Openers(p, s) : d.seq \in Nat /\ d.seq < outSeq[p] /\ d \in net[Other(p)]
<1>1. /\ Other(p) \in Peer /\ Other(Other(p)) = p
      /\ \A d \in net[Other(p)] : d.seq \in Nat
      /\ \A d \in net[Other(p)] : d.seq < outSeq[Other(Other(p))]
  BY OtherOther DEF IInv, HeaderTypeOK, BitsAgree, SequenceInv
<1> QED BY <1>1 DEF Openers

\* The places of the sender are numbers in order.
LEMMA PlacedOfFacts ==
  ASSUME DInv, NEW p \in Peer, NEW s \in Stream, NEW off, PlacedOf(p, s, off)
  PROVE  /\ off[1] \in Nat /\ off[1] <= sent[p][s]
         /\ waitingList[p][s] # <<>> =>
              off[2] \in Nat /\ off[1] < off[2] /\ off[2] <= sent[p][s]
         /\ FrontOf(p, s, off) \in Nat /\ off[1] <= FrontOf(p, s, off)
         /\ FrontOf(p, s, off) <= sent[p][s]
         /\ sent[p][s] \in Nat /\ sent[p][s] <= Len(Outbox[p][s])
<1> DEFINE list == waitingList[p][s]
           queue == Outbox[p][s]
           n == sent[p][s]
           buffered == Buffered(p, s)
           U == Unread(p, s)
           subs == sub[p]
<1>1. Waiting(list) /\ queue \in Seq(Msg) /\ n \in Nat /\ n <= Len(queue)
  BY Direction
<1>2. Placed(list, off, queue, buffered, n)
  BY DEF PlacedOf
<1> HIDE DEF list, queue, n, buffered, U, subs
<1>3. /\ off[1] \in Nat /\ off[1] <= n
      /\ list # <<>> => off[2] \in Nat /\ off[1] < off[2] /\ off[2] <= n
      /\ Front(subs, s, U, list, off) \in Nat /\ off[1] <= Front(subs, s, U, list, off)
      /\ Front(subs, s, U, list, off) <= n
  BY <1>1, <1>2, FrontFacts
<1> QED BY <1>1, <1>3 DEF FrontOf, list, queue, n, U, subs

\* What the handlers have seen is a sequence.
LEMMA ReceiverFacts ==
  ASSUME DInv, NEW p \in Peer, NEW s \in Stream
  PROVE  /\ receiveList[p][s] = NoBuffer \/ Allocated(receiveList[p][s])
         /\ delivered[p][s] \in Seq(Msg \cup {Garbled})
         /\ DOMAIN receiveList = Peer /\ DOMAIN receiveList[p] = Stream
BY DEF DInv, Receiving, Buffers, Histories

\* A step of the sender, or one that clears the receiver.
LEMMA SenderInOrder ==
  ASSUME IInv, DInv, NEW p \in Peer, NEW s \in Stream,
         NEW off, NEW h, NEW m, NEW at, NEW to, InOrder(p, s, off, h, m, at, to),
         NEW off2, PlacedOf(p, s, off2)',
         FrontOf(p, s, off2)' \in Nat, FrontOf(p, s, off) <= FrontOf(p, s, off2)',
         receiveList'[Other(p)][s] \in {receiveList[Other(p)][s], NoBuffer},
         delivered'[Other(p)][s] = delivered[Other(p)][s],
         Openers(p, s)' \subseteq Openers(p, s),
         \A d \in Openers(p, s) : \A k \in Nat :
           Passed(sub[p], s, off, d.sub, k) => Passed(sub'[p], s, off2, d.sub, k)
  PROVE  InOrder(p, s, off2, h, m, at, to)'
<1> DEFINE queue == Outbox[p][s]
           r == receiveList[Other(p)][s]
           r2 == receiveList'[Other(p)][s]
           seen == delivered[Other(p)][s]
           front == FrontOf(p, s, off)
           front2 == FrontOf(p, s, off2)'
           D == Openers(p, s)
           D2 == Openers(p, s)'
           subs == sub[p]
           subs2 == sub'[p]
<1>1. Ordered(queue, r, seen, front, h, m) /\ Travels(D, s, queue, subs, off, m, at, to)
  BY DEF InOrder
<1>2. front \in Nat /\ front2 \in Nat /\ front <= front2 /\ r2 \in {r, NoBuffer}
  BY PlacedOfFacts DEF InOrder
<1>3. \A d \in D : d.seq \in Nat
  BY OpenersFacts
<1>4. D2 \in SUBSET D /\ \A d \in D2 : \A k \in Nat :
        Passed(subs, s, off, d.sub, k) => Passed(subs2, s, off2, d.sub, k)
  OBVIOUS
<1> HIDE DEF queue, r, r2, seen, front, front2, D, D2, subs, subs2
<1>5. Ordered(queue, r2, seen, front2, h, m)
  BY ONLY <1>1, <1>2, OrderedWider
<1>6. \A d \in D2 : m <= at[d.seq]
  BY <1>1, <1>4 DEF Travels
<1>7. Travels(D2, s, queue, subs2, off2, m, at, to)
  BY ONLY <1>1, <1>3, <1>4, <1>6, TravelsOn
<1> QED BY <1>5, <1>7 DEF InOrder, queue, r2, seen, front2, D2, subs2

\* A direction of a stream of which nothing changes, but perhaps that Clear frees
\* the buffer.
LEMMA InOrderKept ==
  ASSUME IInv, DInv, NEW p \in Peer, NEW s \in Stream,
         NEW off, NEW h, NEW m, NEW at, NEW to, InOrder(p, s, off, h, m, at, to),
         sub'[p] = sub[p], outRel'[p] = outRel[p], inRel'[Other(p)] = inRel[Other(p)],
         waitingList'[p][s] = waitingList[p][s], Buffered(p, s)' = Buffered(p, s),
         sent'[p][s] = sent[p][s],
         receiveList'[Other(p)][s] \in {receiveList[Other(p)][s], NoBuffer},
         delivered'[Other(p)][s] = delivered[Other(p)][s],
         net'[Other(p)] = net[Other(p)], inSeq'[Other(p)] = inSeq[Other(p)]
  PROVE  InOrder(p, s, off, h, m, at, to)'
<1>1. Unread(p, s)' = Unread(p, s)
  BY DEF Unread
<1>2. FrontOf(p, s, off)' = FrontOf(p, s, off)
  BY <1>1 DEF FrontOf
<1>3. PlacedOf(p, s, off)'
  BY DEF PlacedOf, InOrder
<1>4. FrontOf(p, s, off) \in Nat
  BY PlacedOfFacts DEF InOrder
<1>5. Openers(p, s)' = Openers(p, s)
  BY DEF Openers, Fresh
<1>6. \A d \in Openers(p, s) : \A k \in Nat :
        Passed(sub[p], s, off, d.sub, k) => Passed(sub'[p], s, off, d.sub, k)
  OBVIOUS
<1>7. FrontOf(p, s, off)' \in Nat /\ FrontOf(p, s, off) <= FrontOf(p, s, off)'
  BY <1>2, <1>4
<1>8. Openers(p, s)' \subseteq Openers(p, s)
  BY <1>5
<1> QED BY <1>3, <1>6, <1>7, <1>8, SenderInOrder

-----------------------------------------------------------------------------
(* Handing data to the channel, and Clear *)

\* SendNetMsg puts a message behind the others.
LEMMA SendNetMsgInOrder ==
  ASSUME IInv, DInv, NEW p \in Peer, SendNetMsg(p), NEW o \in Peer, NEW s \in Stream,
         NEW off, NEW h, NEW m, NEW at, NEW to, InOrder(o, s, off, h, m, at, to)
  PROVE  InOrder(o, s, off, h, m, at, to)'
<1>1. /\ sent \in [Peer -> [Stream -> Nat]] /\ streamReliable \in [Peer -> Seq(Msg)]
  BY DEF DInv, Histories, Sending
<1>2. /\ sub' = sub /\ outRel' = outRel /\ inRel' = inRel /\ inSeq' = inSeq /\ net' = net
      /\ waitingList' = waitingList /\ receiveList' = receiveList /\ delivered' = delivered
  BY DEF SendNetMsg, headerVars
<1>3. CASE o = p /\ s = NORMAL
  <2> DEFINE queue == Outbox[p][NORMAL]
             n == sent[p][NORMAL]
             x == queue[n + 1]
             list == waitingList[p][NORMAL]
             buffered == streamReliable[p]
  <2>1. n < Len(queue)
    BY DEF SendNetMsg
  <2>2. streamReliable'[p] = Append(buffered, x)
    <3>1. streamReliable' = [streamReliable EXCEPT ![p] = Append(buffered, x)]
      BY DEF SendNetMsg
    <3> QED BY <1>1, <3>1
  <2>3. sent'[p][NORMAL] = n + 1
    <3>1. sent' = [sent EXCEPT ![p] = [sent[p] EXCEPT ![NORMAL] = n + 1]]
      BY DEF SendNetMsg
    <3> QED BY <1>1, <3>1, StreamsDiffer
  <2>4. Waiting(list) /\ queue \in Seq(Msg) /\ n \in Nat
    BY Direction, StreamsDiffer
  <2>5. /\ Buffered(p, NORMAL) = buffered
        /\ Buffered(p, NORMAL)' = Append(buffered, x)
    BY <2>2 DEF Buffered
  <2>6. Placed(list, off, queue, buffered, n)
    BY <1>3, <2>5 DEF InOrder, PlacedOf
  <2> HIDE DEF queue, n, list, buffered
  <2>7. Placed(list, off, queue, Append(buffered, x), n + 1)
    BY <2>1, <2>4, <2>6, PlacedBuffered
  <2>8. PlacedOf(o, s, off)'
    BY <1>2, <1>3, <2>3, <2>5, <2>7 DEF PlacedOf, queue, list
  <2>9. FrontOf(o, s, off)' = FrontOf(o, s, off) /\ Openers(o, s)' = Openers(o, s)
    BY <1>2 DEF FrontOf, Unread, Openers, Fresh
  <2>10. FrontOf(o, s, off)' \in Nat /\ FrontOf(o, s, off) <= FrontOf(o, s, off)'
    BY <2>9, PlacedOfFacts DEF InOrder
  <2>11. /\ Openers(o, s)' \subseteq Openers(o, s)
         /\ \A d \in Openers(o, s) : \A k \in Nat :
              Passed(sub[o], s, off, d.sub, k) => Passed(sub'[o], s, off, d.sub, k)
    BY <1>2, <2>9
  <2> QED BY <1>2, <2>8, <2>10, <2>11, SenderInOrder
<1>4. CASE ~(o = p /\ s = NORMAL)
  <2>1. sent'[o][s] = sent[o][s]
    <3> DEFINE f == [sent[p] EXCEPT ![NORMAL] = sent[p][NORMAL] + 1]
    <3>1. sent' = [sent EXCEPT ![p] = f]
      BY DEF SendNetMsg
    <3>2. s # NORMAL => f[s] = sent[p][s]
      BY <1>1
    <3> HIDE DEF f
    <3> QED BY <1>1, <1>4, <3>1, <3>2
  <2>2. Buffered(o, s)' = Buffered(o, s)
    <3> DEFINE x == Append(streamReliable[p], Outbox[p][NORMAL][sent[p][NORMAL] + 1])
    <3>1. streamReliable' = [streamReliable EXCEPT ![p] = x]
      BY DEF SendNetMsg
    <3> HIDE DEF x
    <3>2. o # p => streamReliable'[o] = streamReliable[o]
      BY <1>1, <3>1
    <3> QED BY <1>4, <3>2 DEF Buffered
  <2> QED BY <1>2, <2>1, <2>2, InOrderKept
<1> QED BY <1>3, <1>4

\* SendFile puts an item behind the others.
LEMMA SendFileInOrder ==
  ASSUME IInv, DInv, NEW p \in Peer, SendFile(p), NEW o \in Peer, NEW s \in Stream,
         NEW off, NEW h, NEW m, NEW at, NEW to, InOrder(o, s, off, h, m, at, to)
  PROVE  \E off2 : InOrder(o, s, off2, h, m, at, to)'
<1> DEFINE x == Outbox[p][FILE][sent[p][FILE] + 1]
           item == NewItem(<<x>>, Bytes[x], x \in Files)
           list == waitingList[p][FILE]
           list2 == Append(list, item)
<1>1. /\ sent \in [Peer -> [Stream -> Nat]] /\ DOMAIN waitingList = Peer
      /\ DOMAIN waitingList[p] = Stream
  BY DEF DInv, Histories, Sending, Loaded
<1>2. /\ sub' = sub /\ outRel' = outRel /\ inRel' = inRel /\ inSeq' = inSeq /\ net' = net
      /\ receiveList' = receiveList /\ delivered' = delivered /\ streamReliable' = streamReliable
  BY DEF SendFile, headerVars
<1>3. /\ waitingList'[p][FILE] = list2
      /\ o # p \/ s # FILE => waitingList'[o][s] = waitingList[o][s]
  <2>1. waitingList' = [waitingList EXCEPT ![p] = [waitingList[p] EXCEPT ![FILE] = list2]]
    BY DEF SendFile
  <2> HIDE DEF list2
  <2> QED BY <1>1, <2>1, StreamsDiffer
<1>4. /\ sent'[p][FILE] = sent[p][FILE] + 1
      /\ o # p \/ s # FILE => sent'[o][s] = sent[o][s]
  <2> DEFINE k == sent[p][FILE] + 1
  <2>1. sent' = [sent EXCEPT ![p] = [sent[p] EXCEPT ![FILE] = k]]
    BY DEF SendFile
  <2> HIDE DEF k
  <2>2. /\ sent'[p][FILE] = k
        /\ o # p \/ s # FILE => sent'[o][s] = sent[o][s]
    BY <1>1, <2>1, StreamsDiffer
  <2> QED BY <2>2 DEF k
<1>5. Buffered(o, s)' = Buffered(o, s)
  BY <1>2 DEF Buffered
<1>6. CASE o = p /\ s = FILE
  <2> DEFINE queue == Outbox[p][FILE]
             n == sent[p][FILE]
  <2>1. n < Len(queue)
    BY DEF SendFile
  <2>2. Waiting(list) /\ Carry(sub[p], FILE, list) /\ queue \in Seq(Msg) /\ n \in Nat
    BY Direction, StreamsDiffer
  <2>3. Buffered(p, FILE) = <<>> /\ Buffered(p, FILE)' = <<>>
    BY StreamsDiffer DEF Buffered
  <2>4. Placed(list, off, queue, <<>>, n)
    BY <1>6, <2>3 DEF InOrder, PlacedOf
  <2>5. x = queue[n + 1] /\ x \in Msg
    BY <2>1, <2>2
  <2>6. item \in Item /\ item.acked = 0 /\ item.pending = 0 /\ item.msgs = <<x>>
    <3> DEFINE f == x \in Files
               b == Bytes[x]
               msgs == <<x>>
    <3>1. b \in Nat \ {0} /\ f \in BOOLEAN /\ msgs \in Seq(Msg) \ {<<>>}
      BY <2>5, MessageAssumption
    <3> HIDE DEF f, b, msgs
    <3>2. /\ NewItem(msgs, b, f) \in Item /\ NewItem(msgs, b, f).msgs = msgs
          /\ NewItem(msgs, b, f).acked = 0 /\ NewItem(msgs, b, f).pending = 0
      BY ONLY <3>1, NewItemFields
    <3> QED BY <3>2 DEF f, b, msgs
  <2> HIDE DEF queue, n, x, item
  <2>7. n <= Len(queue) /\ n + 1 \in Nat /\ n <= n + 1 /\ n + 1 <= Len(queue)
    <3>1. Len(queue) \in Nat
      BY <2>2
    <3> QED BY <2>1, <2>2, <3>1
  <2>8. off[Len(list) + 1] = n
    <3> HIDE DEF list
    <3>1. <<>> = <<>> <=> off[Len(list) + 1] = n
      BY <2>2, <2>4, <2>7, PlacedFacts
    <3> QED BY <3>1
  <2>9. item.msgs = Cut(queue, off[Len(list) + 1], n + 1) /\ off[Len(list) + 1] < n + 1
    <3>1. <<queue[n + 1]>> = Cut(queue, n, n + 1)
      <4>1. n <= n
        BY <2>2
      <4> QED BY <2>1, <2>2, <4>1, CutNext
    <3> QED BY <2>2, <2>5, <2>6, <2>8, <3>1
  <2> HIDE DEF list, list2
  <2>10. PICK off2 : /\ Placed(Append(list, item), off2, queue, <<>>, n + 1)
                     /\ off2[1] = off[1] /\ (list # <<>> => off2[2] = off[2])
    BY <2>2, <2>4, <2>7, <2>9, PlacedItem
  <2>11. HeadStays(list, list2) /\ PlacesStay(list, off, off2)
    <3>1. /\ list2 # <<>> /\ (list = <<>> => list2[1] = item)
          /\ list # <<>> => list2[1] = list[1]
      BY <2>2, <2>6, ItemAppended DEF list2
    <3>2. SentFragments(item) = 0
      BY <2>6 DEF SentFragments
    <3> QED BY <2>10, <3>1, <3>2 DEF HeadStays, PlacesStay
  <2>12. PlacedOf(p, FILE, off2)'
    BY <1>3, <1>4, <2>3, <2>10 DEF PlacedOf, list2, queue, n
  <2>13. FrontOf(p, FILE, off2)' = FrontOf(p, FILE, off)
    BY <1>2, <1>3, <2>11, FrontStays DEF FrontOf, Unread, list
  <2>14. FrontOf(p, FILE, off2)' \in Nat /\ FrontOf(p, FILE, off) <= FrontOf(p, FILE, off2)'
    BY <1>6, <2>13, PlacedOfFacts DEF InOrder
  <2>15. \A d \in Openers(p, FILE) : \A k \in Nat :
           Passed(sub[p], FILE, off, d.sub, k) => Passed(sub'[p], FILE, off2, d.sub, k)
    BY <1>2, <2>2, <2>11, PassedStays
  <2>16. Openers(p, FILE)' \subseteq Openers(p, FILE)
    BY <1>2 DEF Openers, Fresh
  <2>17. InOrder(p, FILE, off2, h, m, at, to)'
    BY <1>2, <1>6, <2>12, <2>14, <2>15, <2>16, StreamsDiffer, SenderInOrder
  <2> QED BY <1>6, <2>17
<1>7. CASE ~(o = p /\ s = FILE)
  <2>1. InOrder(o, s, off, h, m, at, to)'
    BY <1>2, <1>3, <1>4, <1>5, <1>7, InOrderKept
  <2> QED BY <2>1
<1> QED BY <1>6, <1>7

\* A choked tick.
LEMMA SetChokedInOrder ==
  ASSUME IInv, DInv, NEW p \in Peer, SetChoked(p), NEW o \in Peer, NEW s \in Stream,
         NEW off, NEW h, NEW m, NEW at, NEW to, InOrder(o, s, off, h, m, at, to)
  PROVE  InOrder(o, s, off, h, m, at, to)'
<1>1. /\ sub' = sub /\ outRel' = outRel /\ inRel' = inRel /\ receiveList' = receiveList
      /\ delivered' = delivered /\ streamReliable' = streamReliable
      /\ waitingList' = waitingList /\ sent' = sent /\ net' = net /\ inSeq' = inSeq
  BY DEF SetChoked, dataVars
<1>2. Buffered(o, s)' = Buffered(o, s)
  BY <1>1 DEF Buffered
<1> QED BY <1>1, <1>2, InOrderKept

\* Everything a peer holds is gone: what it sends next is behind all it has sent.
LEMMA NothingPlaced ==
  ASSUME DInv, NEW p \in Peer, NEW s \in Stream, NEW off, PlacedOf(p, s, off),
         waitingList'[p][s] = <<>>, Buffered(p, s)' = <<>>, sent'[p][s] = sent[p][s]
  PROVE  \E off2 : /\ PlacedOf(p, s, off2)' /\ FrontOf(p, s, off2)' \in Nat
                   /\ FrontOf(p, s, off) <= FrontOf(p, s, off2)'
                   /\ \A c : \A k \in Nat :
                        Passed(sub[p], s, off, c, k) => Passed(sub'[p], s, off2, c, k)
<1>0. PICK n : n = sent[p][s]
  OBVIOUS
<1> DEFINE queue == Outbox[p][s]
           list == waitingList[p][s]
           none == <<>>
           off2 == [i \in 1 .. 1 |-> n]
<1>1. /\ Waiting(list) /\ Carry(sub[p], s, list) /\ queue \in Seq(Msg) /\ n \in Nat
      /\ n <= Len(queue)
  BY <1>0, Direction
<1>2. Cut(queue, n, n) = none
  <2>1. n <= n
    BY <1>1
  <2> HIDE DEF queue
  <2> QED BY <1>1, <2>1, CutFacts
<1> HIDE DEF queue
<1>3. Len(none) = 0
  OBVIOUS
<1>4. off2[1] = n /\ off2 \in [1 .. Len(none) + 1 -> Nat]
  BY <1>1, <1>3
<1> HIDE DEF off2, none
<1>5. Placed(none, off2, queue, none, n)
  BY <1>1, <1>2, <1>3, <1>4 DEF Placed
<1>6. PlacedOf(p, s, off2)'
  BY <1>0, <1>5 DEF PlacedOf, none, queue
<1>7. FrontOf(p, s, off2)' = n
  BY <1>4 DEF FrontOf, Front
<1>8. FrontOf(p, s, off) <= n
  BY <1>0, PlacedOfFacts
<1>9. ASSUME NEW c, NEW k \in Nat, Passed(sub[p], s, off, c, k)
      PROVE  Passed(sub'[p], s, off2, c, k)
  <2> DEFINE buffered == Buffered(p, s)
             subs == sub[p]
  <2>1. Placed(list, off, queue, buffered, n)
    BY <1>0 DEF PlacedOf, queue
  <2>2. Passed(subs, s, off, c, k) /\ Carry(subs, s, list)
    BY <1>1, <1>9
  <2> HIDE DEF list, buffered, subs
  <2>3. k <= n
    BY <1>1, <2>1, <2>2, PassedBound
  <2> QED BY <1>4, <2>3 DEF Passed
<1> QED BY <1>1, <1>6, <1>7, <1>8, <1>9

\* Clear, for the direction in which the peer sends and the one in which it receives.
LEMMA ClearInOrder ==
  ASSUME IInv, DInv, NEW p \in Peer, Clear(p), NEW o \in Peer, NEW s \in Stream,
         NEW off, NEW h, NEW m, NEW at, NEW to, InOrder(o, s, off, h, m, at, to)
  PROVE  \E off2 : InOrder(o, s, off2, h, m, at, to)'
<1>1. /\ DOMAIN sub = Peer /\ DOMAIN outRel = Peer /\ DOMAIN waitingList = Peer
      /\ DOMAIN streamReliable = Peer /\ DOMAIN receiveList = Peer
  BY DEF IInv, HeaderTypeOK, DInv, Sending, Receiving
<1>2. /\ sub' = [sub EXCEPT ![p] = ClearedSub(sub[p])]
      /\ outRel' = [outRel EXCEPT ![p] = ClearedOutRel(sub[p], outRel[p])]
      /\ waitingList' = [waitingList EXCEPT ![p] = [t \in Stream |-> <<>>]]
      /\ receiveList' = [receiveList EXCEPT ![p] = [t \in Stream |-> NoBuffer]]
      /\ streamReliable' = [streamReliable EXCEPT ![p] = <<>>]
      /\ inSeq' = inSeq /\ inRel' = inRel /\ net' = net /\ sent' = sent /\ delivered' = delivered
  BY DEF Clear
<1>3. receiveList'[Other(o)][s] \in {receiveList[Other(o)][s], NoBuffer}
  <2>1. Other(o) \in Peer
    BY OtherOther
  <2> QED BY <1>1, <1>2, <2>1
<1>4. CASE o = p
  <2>1. waitingList'[p][s] = <<>> /\ Buffered(p, s)' = <<>>
    BY <1>1, <1>2 DEF Buffered
  <2>2. PICK off2 : /\ PlacedOf(p, s, off2)' /\ FrontOf(p, s, off2)' \in Nat
                    /\ FrontOf(p, s, off) <= FrontOf(p, s, off2)'
                    /\ \A c : \A k \in Nat :
                         Passed(sub[p], s, off, c, k) => Passed(sub'[p], s, off2, c, k)
    BY <1>2, <1>4, <2>1, NothingPlaced DEF InOrder
  <2>3. Openers(p, s)' \subseteq Openers(p, s)
    BY <1>2 DEF Openers, Fresh
  <2>4. InOrder(p, s, off2, h, m, at, to)'
    BY <1>2, <1>3, <1>4, <2>2, <2>3, SenderInOrder
  <2> QED BY <1>4, <2>4
<1>5. CASE o # p
  <2>1. /\ sub'[o] = sub[o] /\ outRel'[o] = outRel[o] /\ waitingList'[o] = waitingList[o]
        /\ streamReliable'[o] = streamReliable[o]
    BY <1>1, <1>2, <1>5
  <2>2. Buffered(o, s)' = Buffered(o, s)
    BY <2>1 DEF Buffered
  <2>3. InOrder(o, s, off, h, m, at, to)'
    BY <1>2, <1>3, <2>1, <2>2, InOrderKept
  <2> QED BY <2>3
<1> QED BY <1>4, <1>5

-----------------------------------------------------------------------------
(* SendDatagram *)

\* Flushing what is buffered onto the list, and compressing its head.
LEMMA FlushedPlaced ==
  ASSUME NEW s, NEW list, Waiting(list), NEW msgs \in Seq(Msg),
         NEW flushed, flushed = CreateFragments(list, msgs),
         NEW packed, packed \in CompressFragments(flushed),
         NEW off, NEW queue \in Seq(Msg), NEW n \in Nat, n <= Len(queue),
         Placed(list, off, queue, msgs, n)
  PROVE  /\ Waiting(packed) /\ HeadStays(list, packed)
         /\ \E off2 : Placed(packed, off2, queue, <<>>, n) /\ PlacesStay(list, off, off2)
<1> DEFINE none == <<>>
<1>2. PICK off2 : Placed(flushed, off2, queue, none, n) /\ PlacesStay(list, off, off2)
  BY PlacedCreated DEF PlacesStay
<1>3. Waiting(flushed) /\ HeadStays(list, flushed)
  <2>1. /\ Waiting(CreateFragments(list, msgs))
        /\ list # <<>> => CreateFragments(list, msgs) # <<>> /\ CreateFragments(list, msgs)[1] = list[1]
        /\ list = <<>> /\ CreateFragments(list, msgs) # <<>> =>
             CreateFragments(list, msgs)[1].acked = 0 /\ CreateFragments(list, msgs)[1].pending = 0
    BY FragmentsCreated
  <2>2. /\ Waiting(flushed) /\ (list # <<>> => flushed # <<>> /\ flushed[1] = list[1])
        /\ list = <<>> /\ flushed # <<>> => flushed[1].acked = 0 /\ flushed[1].pending = 0
    BY <2>1
  <2> QED BY ONLY <2>2 DEF HeadStays, SentFragments
<1> HIDE DEF none
<1>5. /\ Waiting(packed) /\ Len(packed) = Len(flushed) /\ (packed = <<>> <=> flushed = <<>>)
      /\ \A i \in 2 .. Len(flushed) : packed[i] = flushed[i]
      /\ flushed # <<>> =>
           /\ packed[1].acked = flushed[1].acked /\ packed[1].pending = flushed[1].pending
           /\ packed[1].msgs = flushed[1].msgs /\ packed[1].file = flushed[1].file
           /\ packed[1].bytes = flushed[1].bytes \/ (flushed[1].acked = 0 /\ flushed[1].pending = 0)
  BY <1>3, FragmentsCompressed
<1>6. HeadStays(flushed, packed)
  <2>1. flushed # <<>> => SentFragments(packed[1]) = SentFragments(flushed[1])
    BY <1>5 DEF SentFragments
  <2>2. flushed # <<>> /\ flushed[1].acked = 0 /\ flushed[1].pending = 0 => SentFragments(flushed[1]) = 0
    BY DEF SentFragments
  <2> QED BY ONLY <1>5, <2>1, <2>2 DEF HeadStays
<1>7. \A i \in 1 .. Len(flushed) : packed[i].msgs = flushed[i].msgs
  <2>1. TAKE i \in 1 .. Len(flushed)
  <2>2. flushed # <<>>
    BY <1>3 DEF Waiting
  <2>3. i = 1 \/ i \in 2 .. Len(flushed)
    BY <1>3 DEF Waiting
  <2> QED BY <1>5, <2>2, <2>3
<1>8. Placed(packed, off2, queue, none, n)
  BY <1>2, <1>5, <1>7, PlacedSame
<1>9. HeadStays(list, packed)
  BY <1>3, <1>6 DEF HeadStays
<1> QED BY <1>2, <1>5, <1>8, <1>9 DEF none

\* UpdateSubChannels gives a subchannel the first fragment of a head only if that
\* had not been sent before: the sender is not behind where it was.
LEMMA UpdatedFront ==
  ASSUME IInv, DInv, NEW p \in Peer, NEW s \in Stream, NEW lists, Loaded(sub[p], lists),
         NEW take \in [Stream -> 0 .. MaxFragments], take[s] <= Unsent(lists[s]),
         NEW subs2, subs2 = TransmittedSub(p, UpdatedSub(p, lists, take)),
         NEW off, NEW queue \in Seq(Msg), NEW buffered, NEW n \in Nat, n <= Len(queue),
         Placed(lists[s], off, queue, buffered, n)
  PROVE  LET U2 == Untaken(subs2, UpdatedOutRel(p, take), inRel[Other(p)], s)
             list2 == UpdatedWaiting(p, lists, take)[s]
         IN  /\ Placed(list2, off, queue, buffered, n)
             /\ Front(subs2, s, U2, list2, off) \in Nat
             /\ Front(sub[p], s, Unread(p, s), lists[s], off) <= Front(subs2, s, U2, list2, off)
<1> DEFINE U == Unread(p, s)
<1> DEFINE U2 == Untaken(subs2, UpdatedOutRel(p, take), inRel[Other(p)], s)
<1> DEFINE list == lists[s]
<1> DEFINE list2 == UpdatedWaiting(p, lists, take)[s]
<1> DEFINE subs == sub[p]
<1>1. /\ U \in SUBSET Flight(subs, s) /\ Waiting(list) /\ Carry(subs, s, list)
  <2>1. U \in SUBSET Flight(subs, s)
    BY Direction
  <2>2. Waiting(list) /\ Carry(subs, s, list)
    BY DEF Loaded
  <2> QED BY <2>1, <2>2
<1>2. /\ \A c \in SubChannel : subs[c].state # "FREE" =>
           subs2[c].num = subs[c].num /\ subs2[c].start = subs[c].start
      /\ Allocates(p, take) /\ take[s] > 0 =>
           \E c0 \in SubChannel : /\ c0 \notin U /\ U2 = U \cup {c0}
                                  /\ subs2[c0].num[s] = take[s]
                                  /\ subs2[c0].start[s] = SentFragments(list[1])
      /\ ~(Allocates(p, take) /\ take[s] > 0) => U2 = U
  BY UpdatedUnread
<1>3. \A c \in U : subs2[c].start = subs[c].start
  <2> HIDE DEF U, subs
  <2> QED BY <1>1, <1>2 DEF Flight
<1>4. CASE Allocates(p, take) /\ take[s] > 0
  <2>1. PICK c0 \in SubChannel : U2 = U \cup {c0} /\ subs2[c0].start[s] = SentFragments(list[1])
    BY <1>2, <1>4
  <2> DEFINE k == take[s]
  <2>2. k \in Nat /\ k > 0 /\ k <= Unsent(list)
    BY <1>4, SizeAssumption
  <2>3. list2 = [list EXCEPT ![1].pending = @ + k]
    BY <1>4 DEF UpdatedWaiting
  <2>4. Placed(list, off, queue, buffered, n)
    OBVIOUS
  <2> HIDE DEF U, U2, list, list2, subs, k
  <2>5. list # <<>>
    BY <1>1, <2>2, UnsentLeft
  <2>6. /\ list2 # <<>> /\ Len(list2) = Len(list)
        /\ \A i \in 2 .. Len(list) : list2[i] = list[i]
        /\ list2[1].msgs = list[1].msgs
    <3> DEFINE l2 == [list EXCEPT ![1].pending = @ + k]
    <3>1. /\ l2 # <<>> /\ Len(l2) = Len(list)
          /\ \A i \in 2 .. Len(list) : l2[i] = list[i]
          /\ l2[1].msgs = list[1].msgs
      BY ONLY <1>1, <2>2, <2>5, HeadPending, ZenonT(30)
    <3>2. list2 = l2
      BY <2>3
    <3> HIDE DEF l2
    <3> QED BY ONLY <3>1, <3>2
  <2>7. \A i \in 1 .. Len(list) : list2[i].msgs = list[i].msgs
    <3>1. TAKE i \in 1 .. Len(list)
    <3>2. i = 1 \/ i \in 2 .. Len(list)
      BY <1>1 DEF Waiting
    <3> QED BY <2>6, <3>2
  <2>8. Placed(list2, off, queue, buffered, n)
    BY <2>4, <2>6, <2>7, PlacedSame
  <2>9. list # <<>> /\ Unopen(subs2, s, U2, list2[1]) => Unopen(subs, s, U, list[1])
    <3> DEFINE h == list[1]
    <3> DEFINE h2 == list2[1]
    <3>1. h \in Item
      BY <1>1, <2>5 DEF Waiting
    <3>2. h2.pending = h.pending + k /\ h2.acked = h.acked
      <4> DEFINE l2 == [list EXCEPT ![1].pending = @ + k]
      <4>1. l2[1].pending = list[1].pending + k /\ l2[1].acked = list[1].acked
        BY ONLY <1>1, <2>2, <2>5, HeadPending, ZenonT(30)
      <4>2. list2 = l2
        BY <2>3
      <4> HIDE DEF l2
      <4> QED BY ONLY <4>1, <4>2
    <3> HIDE DEF h, h2
    <3>3. h.acked \in Nat /\ h.pending \in Nat /\ SentFragments(h) = h.acked + h.pending
      BY <3>1, ItemFields
    <3>4. SentFragments(h2) # 0
      BY <2>2, <3>2, <3>3 DEF SentFragments
    <3>5. SentFragments(h) = subs2[c0].start[s]
      BY <2>1 DEF h
    <3>6. Unopen(subs2, s, U2, h2) => Unopen(subs, s, U, h)
      BY <1>3, <2>1, <3>4, <3>5 DEF Unopen
    <3> QED BY <3>6 DEF h, h2
  <2>10. list = <<>> <=> list2 = <<>>
    BY <2>5, <2>6
  <2>11. /\ Front(subs2, s, U2, list2, off) \in Nat
         /\ Front(subs, s, U, list, off) <= Front(subs2, s, U2, list2, off)
    BY <1>1, <2>4, <2>9, <2>10, FrontGrows
  <2> QED BY <2>8, <2>11 DEF U, U2, list, list2, subs
<1>5. CASE ~(Allocates(p, take) /\ take[s] > 0)
  <2>1. list2 = list /\ U2 = U
    BY <1>2, <1>5 DEF UpdatedWaiting
  <2>2. Placed(list, off, queue, buffered, n)
    OBVIOUS
  <2> HIDE DEF U, U2, list, list2, subs
  <2>3. list # <<>> /\ Unopen(subs2, s, U, list[1]) => Unopen(subs, s, U, list[1])
    BY <1>3 DEF Unopen
  <2>4. /\ Front(subs2, s, U, list, off) \in Nat
        /\ Front(subs, s, U, list, off) <= Front(subs2, s, U, list, off)
    BY <1>1, <2>2, <2>3, FrontGrows
  <2> QED BY <2>1, <2>2, <2>4 DEF U, U2, list, list2, subs
<1> QED BY <1>4, <1>5

\* What is on the wire keeps its subchannel when a datagram is sent.
LEMMA UpdatedFlightStays ==
  ASSUME IInv, NEW p \in Peer, NEW s \in Stream, NEW lists, NEW take,
         WellFormed(UpdatedSub(p, lists, take)), NEW c \in Flight(sub[p], s)
  PROVE  LET subs1 == UpdatedSub(p, lists, take)
             subs2 == TransmittedSub(p, subs1)
         IN  /\ c \in SubChannel /\ subs1[c] = sub[p][c] /\ c \in Flight(subs1, s)
             /\ c \in Flight(subs2, s) /\ subs2[c].start = sub[p][c].start
<1> DEFINE subs1 == UpdatedSub(p, lists, take)
<1> DEFINE subs2 == TransmittedSub(p, subs1)
<1>1. WellFormed(sub[p]) /\ outRel[p] \in [SubChannel -> Bit] /\ outSeq[p] \in Nat
  BY DEF IInv, HeaderTypeOK
<1>2. c \in SubChannel /\ sub[p][c].state # "FREE"
  BY DEF Flight
<1>3. subs1[c] = sub[p][c]
  BY <1>1, <1>2, UpdatedValues
<1>4. subs2[c].num = subs1[c].num /\ subs2[c].start = subs1[c].start
  BY <1>2, TransmittedFields
<1>5. subs2[c].state = "WAITING" \/ subs2[c] = subs1[c]
  <2> HIDE DEF subs1
  <2> DEFINE d0 == Packet(p, subs1, lists).sub
  <2>1. \A d \in SubChannel :
          \/ d0 = d /\ subs1[d].state = "TOSEND" /\ subs2[d].state = "WAITING"
          \/ d0 # d /\ subs2[d] = subs1[d]
    BY <1>1, TransmittedValues DEF subs1
  <2> HIDE DEF d0, subs2
  <2> QED BY <1>2, <2>1
<1> HIDE DEF subs1, subs2
<1>6. c \in Flight(subs1, s) /\ c \in Flight(subs2, s)
  BY <1>2, <1>3, <1>4, <1>5 DEF Flight
<1> QED BY <1>2, <1>3, <1>4, <1>6 DEF subs1, subs2

\* A new datagram that opens an item opens the head.
LEMMA OpenerWritten ==
  ASSUME NEW p \in Peer, NEW subs, WellFormed(subs), NEW lists, Loaded(subs, lists), NEW s \in Stream,
         NEW pkt, pkt = Packet(p, subs, lists), pkt.sub # NoSub, Carries(pkt, s),
         pkt.data[s].start = 0
  PROVE  /\ pkt.sub \in Flight(subs, s) /\ subs[pkt.sub].state = "TOSEND"
         /\ subs[pkt.sub].start[s] = 0
         /\ lists[s] # <<>> /\ pkt.data[s].item = lists[s][1].msgs
<1> DEFINE c == First(InState(subs, "TOSEND"))
<1>1. InState(subs, "TOSEND") # {}
  BY DEF Packet
<1>2. pkt.sub = c /\ pkt.data[s] = StreamData(subs[c], lists[s], s)
  BY <1>1 DEF Packet, ReliableData
<1>3. c \in SubChannel /\ subs[c].state = "TOSEND"
  BY <1>1, FirstInState
<1> HIDE DEF c
<1> DEFINE list == lists[s]
<1> DEFINE d == StreamData(subs[c], list, s)
<1>4. Fragmented(subs) /\ Waiting(list) /\ Carry(subs, s, list)
  BY DEF Loaded
<1> HIDE DEF list
<1>5. /\ subs[c].num[s] = 0 => d = NoData
      /\ subs[c].num[s] > 0 =>
           /\ list # <<>> /\ c \in Flight(subs, s)
           /\ d.item = list[1].msgs /\ d.start = subs[c].start[s]
      /\ subs[c].num[s] = 0 \/ subs[c].num[s] > 0
  BY <1>3, <1>4, PieceWritten
<1>6. pkt.data[s] = d /\ d # NoData /\ d.start = 0
  BY <1>2 DEF Carries, list
<1> HIDE DEF d
<1>7. list # <<>> /\ c \in Flight(subs, s) /\ d.item = list[1].msgs /\ subs[c].start[s] = 0
  BY <1>5, <1>6
<1> QED BY <1>2, <1>3, <1>6, <1>7 DEF list

\* SendDatagram, for the direction in which the peer sends: what was buffered is
\* behind the other items, and a datagram that opens an item is behind all others.
LEMMA DatagramInOrder ==
  ASSUME IInv, DInv, NEW p \in Peer, SendDatagram(p), NEW s \in Stream,
         NEW off, NEW h, NEW m, NEW at, NEW to, InOrder(p, s, off, h, m, at, to)
  PROVE  \E off2, at2, to2 : InOrder(p, s, off2, h, m, at2, to2)'
<1> DEFINE flushed == [waitingList[p] EXCEPT ![NORMAL] =
                         CreateFragments(waitingList[p][NORMAL], streamReliable[p])]
<1>1. PICK lists, take :
        /\ \A t \in Stream : lists[t] \in CompressFragments(flushed[t])
        /\ take \in [Stream -> 0 .. MaxFragments]
        /\ \A t \in Stream : take[t] <= Unsent(lists[t])
        /\ Loaded(sub[p], lists)
        /\ Loaded(UpdatedSub(p, lists, take), UpdatedWaiting(p, lists, take))
        /\ WellFormed(UpdatedSub(p, lists, take))
        /\ sub' = [sub EXCEPT ![p] = TransmittedSub(p, UpdatedSub(p, lists, take))]
        /\ outRel' = [outRel EXCEPT ![p] = UpdatedOutRel(p, take)]
        /\ waitingList' = [waitingList EXCEPT ![p] = UpdatedWaiting(p, lists, take)]
        /\ streamReliable' = [streamReliable EXCEPT ![p] = <<>>]
        /\ net' = [net EXCEPT ![Other(p)] =
                     Travelling(net[Other(p)] \cup
                                  {Packet(p, UpdatedSub(p, lists, take), UpdatedWaiting(p, lists, take))},
                                outSeq[p])]
        /\ UNCHANGED <<inSeq, inRel, receiveList, historyVars>>
  <2>1. SendDatagram(p)
    OBVIOUS
  <2> QED BY <2>1, SendDatagramData
<1>2. /\ DOMAIN sub = Peer /\ DOMAIN outRel = Peer /\ DOMAIN waitingList = Peer
      /\ DOMAIN streamReliable = Peer /\ DOMAIN waitingList[p] = Stream /\ DOMAIN net = Peer
      /\ Other(p) \in Peer /\ outSeq[p] \in Nat /\ WellFormed(sub[p])
      /\ outRel[p] \in [SubChannel -> Bit] /\ inRel[Other(p)] \in [SubChannel -> Bit]
  BY OtherOther DEF IInv, HeaderTypeOK, DInv, Sending, Loaded
<1> DEFINE subs == sub[p]
<1> DEFINE subs1 == UpdatedSub(p, lists, take)
<1> DEFINE subs2 == TransmittedSub(p, subs1)
<1> DEFINE updated == UpdatedWaiting(p, lists, take)
<1> DEFINE list == waitingList[p][s]
<1> DEFINE packed == lists[s]
<1> DEFINE list2 == updated[s]
<1> DEFINE U == Unread(p, s)
<1> DEFINE U2 == Untaken(subs2, UpdatedOutRel(p, take), inRel[Other(p)], s)
<1> DEFINE queue == Outbox[p][s]
<1> DEFINE n == sent[p][s]
<1> DEFINE r == receiveList[Other(p)][s]
<1> DEFINE seen == delivered[Other(p)][s]
<1> DEFINE msgs == Buffered(p, s)
<1> DEFINE none == <<>>
<1> DEFINE pkt == Packet(p, subs1, updated)
<1> DEFINE D == Openers(p, s)
<1> DEFINE D2 == Openers(p, s)'
<1>3. /\ Fragmented(subs) /\ Waiting(list) /\ Carry(subs, s, list)
      /\ queue \in Seq(Msg) /\ n \in Nat /\ n <= Len(queue)
  BY Direction
<1>4. msgs \in Seq(Msg)
  BY Direction DEF Buffered
<1>5. flushed[s] = CreateFragments(list, msgs)
  <2>1. CASE s = NORMAL
    BY <1>2, <2>1 DEF Buffered
  <2>2. CASE s # NORMAL
    <3>1. msgs = <<>>
      BY <2>2 DEF Buffered
    <3>2. CreateFragments(list, msgs) = list
      BY <3>1 DEF CreateFragments
    <3> QED BY <1>2, <2>2, <3>2
  <2> QED BY <2>1, <2>2
<1>6. PICK off2 : HeadStays(list, packed) /\ Placed(packed, off2, queue, none, n) /\ PlacesStay(list, off, off2)
  <2> DEFINE list1 == flushed[s]
  <2>1. packed \in CompressFragments(list1) /\ list1 = CreateFragments(list, msgs)
    BY <1>1, <1>5
  <2>2. Placed(list, off, queue, msgs, n)
    BY DEF InOrder, PlacedOf
  <2> HIDE DEF flushed, list1, list, packed, queue, n, msgs
  <2> QED BY ONLY <1>3, <1>4, <2>1, <2>2, FlushedPlaced
<1>7. /\ Placed(list2, off2, queue, none, n)
      /\ Front(subs2, s, U2, list2, off2) \in Nat
      /\ Front(subs, s, U, list, off) <= Front(subs2, s, U2, list2, off2)
  <2>1. Front(subs, s, U, packed, off2) = Front(subs, s, U, list, off)
    <3> HIDE DEF subs, U, packed, list
    <3> QED BY <1>6, FrontStays
  <2>2. Loaded(sub[p], lists) /\ take \in [Stream -> 0 .. MaxFragments] /\ take[s] <= Unsent(lists[s])
    BY <1>1
  <2>3. Placed(lists[s], off2, queue, none, n)
    BY <1>6
  <2> HIDE DEF queue, n, none
  <2>4. /\ Placed(list2, off2, queue, none, n)
        /\ Front(subs2, s, U2, list2, off2) \in Nat
        /\ Front(sub[p], s, Unread(p, s), lists[s], off2) <= Front(subs2, s, U2, list2, off2)
    BY ONLY IInv, DInv, p \in Peer, s \in Stream, <1>3, <2>2, <2>3, UpdatedFront
  <2> QED BY <2>1, <2>4
<1>8. /\ sub'[p] = subs2 /\ outRel'[p] = UpdatedOutRel(p, take) /\ waitingList'[p][s] = list2
      /\ streamReliable'[p] = <<>> /\ inRel' = inRel /\ receiveList' = receiveList
      /\ sent' = sent /\ delivered' = delivered /\ inSeq' = inSeq
      /\ net'[Other(p)] \subseteq net[Other(p)] \cup {pkt}
  BY <1>1, <1>2 DEF historyVars, Travelling
<1>9. Unread(p, s)' = U2 /\ Buffered(p, s)' = none
  BY <1>8 DEF Unread, Buffered
<1>10. PlacedOf(p, s, off2)' /\ FrontOf(p, s, off2)' = Front(subs2, s, U2, list2, off2)
  <2>1. sub[p]' = subs2 /\ waitingList[p][s]' = list2 /\ sent[p][s]' = n
    BY <1>8
  <2> QED BY <1>7, <1>9, <2>1 DEF PlacedOf, FrontOf
<1>11. D2 \subseteq D \cup {pkt} /\ (pkt \in D2 => pkt.sub # NoSub /\ Carries(pkt, s) /\ pkt.data[s].start = 0)
  <2> HIDE DEF pkt
  <2> QED BY <1>8 DEF Openers, Fresh, Carries
<1>12. ASSUME NEW c \in Flight(subs, s)
       PROVE  /\ c \in SubChannel /\ subs1[c] = subs[c] /\ c \in Flight(subs1, s)
              /\ c \in Flight(subs2, s) /\ subs2[c].start = subs[c].start
  BY <1>1, <1>12, UpdatedFlightStays
<1>13. \A c : \A k \in Nat : Passed(subs, s, off, c, k) => Passed(subs2, s, off2, c, k)
  <2> HIDE DEF subs, subs1, subs2, list
  <2>1. \A c \in Flight(subs, s) : list # <<>>
    BY <1>3 DEF Carry
  <2> QED BY <1>6, <1>12, <2>1 DEF Passed, PlacesStay
<1>14. Ordered(queue, r, seen, Front(subs, s, U, list, off), h, m) /\ Travels(D, s, queue, subs, off, m, at, to)
  BY DEF InOrder, FrontOf
<1>15. \A d \in D : d.seq \in Nat /\ d.seq < outSeq[p] /\ d \in net[Other(p)]
  BY OpenersFacts
<1>16. Front(subs, s, U, list, off) \in Nat
  BY PlacedOfFacts DEF InOrder, FrontOf
<1>17. Ordered(queue, r, seen, Front(subs2, s, U2, list2, off2), h, m)
  <2> HIDE DEF queue, r, seen, subs, subs2, U, U2, list, list2
  <2>1. r \in {r, NoBuffer}
    OBVIOUS
  <2> QED BY ONLY <1>7, <1>14, <1>16, <2>1, OrderedWider
<1>18. Travels(D, s, queue, subs2, off2, m, at, to)
  <2> HIDE DEF D, queue, subs, subs2
  <2>1. \A d \in D : m <= at[d.seq]
    BY <1>14 DEF Travels
  <2> QED BY <1>13, <1>14, <1>15, <2>1, TravelsOn
<1>19. ASSUME NEW at2, NEW to2, Travels(D2, s, queue, subs2, off2, m, at2, to2)
       PROVE  InOrder(p, s, off2, h, m, at2, to2)'
  <2>1. /\ Outbox[p][s]' = queue /\ receiveList[Other(p)][s]' = r /\ delivered[Other(p)][s]' = seen
        /\ sub[p]' = subs2 /\ FrontOf(p, s, off2)' = Front(subs2, s, U2, list2, off2)
    BY <1>8, <1>10
  <2>2. Ordered(Outbox[p][s], receiveList[Other(p)][s], delivered[Other(p)][s], FrontOf(p, s, off2), h, m)'
    BY <1>17, <2>1
  <2>3. Travels(Openers(p, s), s, Outbox[p][s], sub[p], off2, m, at2, to2)'
    BY <1>19, <2>1
  <2> QED BY <1>10, <2>2, <2>3 DEF InOrder
<1>20. CASE pkt \notin D2
  <2> HIDE DEF D, D2, queue, subs2, pkt
  <2>1. D2 \in SUBSET D
    BY <1>11, <1>20
  <2>2. \A d \in D2 : m <= at[d.seq]
    BY <1>18, <2>1 DEF Travels
  <2>3. \A d \in D2 : \A k \in Nat : Passed(subs2, s, off2, d.sub, k) => Passed(subs2, s, off2, d.sub, k)
    OBVIOUS
  <2>4. Travels(D2, s, queue, subs2, off2, m, at, to)
    BY <1>15, <1>18, <2>1, <2>2, <2>3, TravelsOn
  <2> QED BY <1>19, <2>4 DEF D2, queue, subs2
<1>21. CASE pkt \in D2
  <2> DEFINE c == pkt.sub
  <2>1. /\ c \in Flight(subs1, s) /\ subs1[c].state = "TOSEND" /\ subs1[c].start[s] = 0
        /\ list2 # <<>> /\ pkt.data[s].item = list2[1].msgs
    <3>1. WellFormed(subs1) /\ Loaded(subs1, updated)
      BY <1>1
    <3>2. pkt.sub # NoSub /\ Carries(pkt, s) /\ pkt.data[s].start = 0
      BY <1>11, <1>21
    <3> HIDE DEF subs1, updated
    <3>3. pkt = Packet(p, subs1, updated)
      OBVIOUS
    <3> HIDE DEF pkt
    <3> QED BY <3>1, <3>2, <3>3, OpenerWritten
  <2>2. c \in SubChannel
    BY <2>1 DEF Flight
  <2>3. c \in Flight(subs2, s) /\ subs2[c].start[s] = 0
    <3>1. WellFormed(subs1) /\ Fragmented(subs1)
      BY <1>1 DEF Loaded
    <3> HIDE DEF subs1, pkt
    <3>2. Flight(subs2, s) = Flight(subs1, s)
      BY <1>2, <3>1, TransmittedFlight
    <3>3. subs2[c].start = subs1[c].start
      BY <2>2, <3>1, TransmittedFields
    <3> QED BY <2>1, <3>2, <3>3
  <2>4. UpdatedOutRel(p, take)[c] # inRel[Other(p)][c]
    <3>1. SubChannelInv(p, c)
      BY <2>2 DEF IInv, BitsAgree
    <3>2. outRel[p][c] \in {0, 1} /\ inRel[Other(p)][c] \in {0, 1}
      BY <1>2, <2>2 DEF Bit
    <3>3. \/ /\ subs[c].state = "FREE"
             /\ UpdatedOutRel(p, take)[c] = 1 - outRel[p][c]
          \/ /\ subs1[c] = subs[c]
             /\ UpdatedOutRel(p, take)[c] = outRel[p][c]
      BY <1>2, <2>2, UpdatedValues
    <3> HIDE DEF pkt, subs1
    <3>4. CASE subs[c].state = "FREE" /\ UpdatedOutRel(p, take)[c] = 1 - outRel[p][c]
      <4>1. outRel[p][c] = inRel[Other(p)][c]
        BY <3>1, <3>4 DEF SubChannelInv
      <4> QED BY <3>2, <3>4, <4>1
    <3>5. CASE subs1[c] = subs[c] /\ UpdatedOutRel(p, take)[c] = outRel[p][c]
      <4>1. outRel[p][c] # inRel[Other(p)][c]
        BY <2>1, <3>1, <3>5 DEF SubChannelInv
      <4> QED BY <3>5, <4>1
    <3> QED BY <3>3, <3>4, <3>5
  <2>5. Front(subs2, s, U2, list2, off2) = off2[1]
    <3>1. c \in U2
      BY <2>3, <2>4 DEF Untaken
    <3> HIDE DEF U2, subs2, list2, pkt
    <3>2. Unopen(subs2, s, U2, list2[1])
      BY <2>3, <3>1 DEF Unopen
    <3> QED BY <3>2 DEF Front
  <2> DEFINE a == off2[1]
  <2> DEFINE b == off2[2]
  <2>6. a \in Nat /\ b \in Nat /\ a <= b /\ list2[1].msgs = Cut(queue, a, b)
    <3> HIDE DEF list2, queue, n, none
    <3>1. Placed(list2, off2, queue, none, n) /\ list2 # <<>>
      BY <1>7, <2>1
    <3>2. Waiting(list2)
      BY <1>1 DEF Loaded, list2
    <3>3. Len(list2) \in Nat /\ 1 \in 1 .. Len(list2)
      BY <3>1, <3>2 DEF Waiting
    <3>4. off2 \in [1 .. Len(list2) + 1 -> Nat] /\ off2[1] < off2[1 + 1]
          /\ list2[1].msgs = Cut(queue, off2[1], off2[1 + 1])
      BY <3>1, <3>3 DEF Placed
    <3>5. 1 \in 1 .. Len(list2) + 1 /\ 2 \in 1 .. Len(list2) + 1 /\ 1 + 1 = 2
      BY <3>3
    <3> QED BY <3>4, <3>5
  <2>7. m <= a
    <3> HIDE DEF subs2, U2, list2, queue, r, seen
    <3> QED BY <1>17, <2>5 DEF Ordered
  <2>8. ASSUME NEW d \in D PROVE to[d.seq] <= a
    <3>1. Passed(subs, s, off, d.sub, to[d.seq])
      BY <1>14 DEF Travels
    <3>2. off[1] = off2[1]
      BY <1>6 DEF PlacesStay
    <3>3. CASE to[d.seq] <= off[1]
      BY <3>2, <3>3
    <3>4. CASE d.sub \in Flight(subs, s) /\ subs[d.sub].start[s] = 0
      <4>1. d.sub \in SubChannel /\ subs1[d.sub] = subs[d.sub] /\ d.sub \in Flight(subs1, s)
        BY <1>12, <3>4
      <4>2. d \in FreshData(p, d.sub)
        BY DEF Openers, FreshData
      <4>3. subs[d.sub].state \in {"WAITING", "DIRTY"}
        BY <4>1, <4>2 DEF IInv, BitsAgree, SubChannelInv
      <4>4. Fragmented(subs1) /\ Carry(subs1, s, list2)
        BY <1>1 DEF Loaded
      <4> HIDE DEF subs, subs1, list2, pkt
      <4>5. subs1[d.sub].start[s] = 0
        BY <3>4, <4>1
      <4>6. c = d.sub
        BY ONLY s \in Stream, <2>1, <4>1, <4>4, <4>5, OneFirst
      <4> QED BY <2>1, <4>1, <4>3, <4>6
    <3> QED BY <3>1, <3>3, <3>4 DEF Passed
  <2>9. Passed(subs2, s, off2, c, b)
    <3> HIDE DEF subs2, pkt
    <3> QED BY <2>3, <2>6 DEF Passed
  <2>10. pkt.seq = outSeq[p]
    BY DEF Packet
  <2> HIDE DEF D, D2, queue, subs2, pkt, a, b, subs1, updated, list2
  <2>11. D2 \in SUBSET (D \cup {pkt}) /\ pkt.seq \in Nat /\ \A d \in D : d.seq < pkt.seq
    BY <1>2, <1>11, <1>15, <2>10
  <2>12. pkt.data[s].item = Cut(queue, a, b)
    BY <2>1, <2>6
  <2>13. \A d \in D : d.seq \in Nat /\ to[d.seq] <= a
    BY <1>15, <2>8
  <2>14. Travels(D2, s, queue, subs2, off2, m, [at EXCEPT ![pkt.seq] = a], [to EXCEPT ![pkt.seq] = b])
    BY ONLY <1>18, <2>6, <2>7, <2>9, <2>11, <2>12, <2>13, TravelsGains
  <2> QED BY <1>19, <2>14 DEF D2, queue, subs2, subs1
<1> QED BY <1>20, <1>21

\* SendDatagram, for both directions.
LEMMA SendDatagramInOrder ==
  ASSUME IInv, DInv, NEW p \in Peer, SendDatagram(p), NEW o \in Peer, NEW s \in Stream,
         NEW off, NEW h, NEW m, NEW at, NEW to, InOrder(o, s, off, h, m, at, to)
  PROVE  \E off2, at2, to2 : InOrder(o, s, off2, h, m, at2, to2)'
<1>1. CASE o = p
  BY <1>1, DatagramInOrder
<1>2. CASE o # p
  <2>1. PICK lists, take :
          /\ take \in [Stream -> 0 .. MaxFragments]
          /\ Loaded(sub[p], lists) /\ WellFormed(UpdatedSub(p, lists, take))
          /\ sub' = [sub EXCEPT ![p] = TransmittedSub(p, UpdatedSub(p, lists, take))]
          /\ outRel' = [outRel EXCEPT ![p] = UpdatedOutRel(p, take)]
          /\ waitingList' = [waitingList EXCEPT ![p] = UpdatedWaiting(p, lists, take)]
          /\ streamReliable' = [streamReliable EXCEPT ![p] = <<>>]
          /\ net' = [net EXCEPT ![Other(p)] =
                       Travelling(net[Other(p)] \cup
                                    {Packet(p, UpdatedSub(p, lists, take), UpdatedWaiting(p, lists, take))},
                                  outSeq[p])]
          /\ UNCHANGED <<inSeq, inRel, receiveList, historyVars>>
    <3>1. SendDatagram(p)
      OBVIOUS
    <3> QED BY <3>1, SendDatagramData
  <2>2. /\ DOMAIN sub = Peer /\ DOMAIN outRel = Peer /\ DOMAIN waitingList = Peer
        /\ DOMAIN streamReliable = Peer /\ DOMAIN net = Peer
        /\ Other(p) \in Peer /\ Other(o) \in Peer /\ Other(o) # Other(p)
    BY <1>2, OtherOther DEF IInv, HeaderTypeOK, DInv, Sending
  <2>3. /\ sub'[o] = sub[o] /\ outRel'[o] = outRel[o] /\ waitingList'[o] = waitingList[o]
        /\ streamReliable'[o] = streamReliable[o] /\ net'[Other(o)] = net[Other(o)]
        /\ inRel' = inRel /\ inSeq' = inSeq /\ receiveList' = receiveList
        /\ sent' = sent /\ delivered' = delivered
    BY <1>2, <2>1, <2>2 DEF historyVars
  <2>4. Buffered(o, s)' = Buffered(o, s)
    BY <2>3 DEF Buffered
  <2>5. InOrder(o, s, off, h, m, at, to)'
    BY <2>3, <2>4, InOrderKept
  <2> QED BY <2>5
<1> QED BY <1>1, <1>2

-----------------------------------------------------------------------------
(* ProcessPacket, the acknowledgements *)

\* What a header leaves of the flight has not been taken before either.
LEMMA HeaderUntaken ==
  ASSUME IInv, DInv, NEW p \in Peer, NEW q \in net[p], Fresh(p, q), NEW s \in Stream
  PROVE  LET subs == sub[p]
             subs2 == HeaderSub(p, q)
             U2 == Untaken(subs2, HeaderOutRel(p, q), inRel[Other(p)], s)
         IN  /\ Fragmented(subs2)
             /\ \A c \in Flight(subs2, s) :
                  c \in Flight(subs, s) /\ c \notin AckedSubs(p, q) /\ subs2[c].start = subs[c].start
             /\ \A c \in Flight(subs, s) : c \notin AckedSubs(p, q) => c \in Flight(subs2, s)
             /\ \A c \in U2 : c \in Unread(p, s) /\ subs2[c].start = subs[c].start
<1> DEFINE subs == sub[p]
<1> DEFINE subs2 == HeaderSub(p, q)
<1> DEFINE A == AckedSubs(p, q)
<1> DEFINE U2 == Untaken(subs2, HeaderOutRel(p, q), inRel[Other(p)], s)
<1>1. ValidHeader(p, q) /\ WellFormed(subs) /\ Fragmented(subs)
  <2>1. ValidHeader(p, q)
    BY FreshIsValid
  <2>2. WellFormed(subs)
    BY DEF IInv, HeaderTypeOK
  <2>3. Fragmented(subs)
    BY Direction
  <2> QED BY <2>1, <2>2, <2>3
<1>2. \A c \in SubChannel :
        /\ subs2[c].num \in [Stream -> 0 .. MaxFragments] /\ subs2[c].start \in [Stream -> Int]
        /\ c \in A => subs2[c].state = "FREE"
        /\ c \notin A =>
             (subs2[c].state \in {"TOSEND", "WAITING"} <=> subs[c].state \in {"TOSEND", "WAITING"})
        /\ subs2[c].state \in {"TOSEND", "WAITING"} =>
             subs2[c].num = subs[c].num /\ subs2[c].start = subs[c].start
  BY <1>1, HeaderFragments
<1>3. \A c \in SubChannel : subs[c].state # "DIRTY" => HeaderOutRel(p, q)[c] = outRel[p][c]
  BY DEF HeaderOutRel
<1>4. \A c \in U2 : c \in Flight(subs2, s) /\ HeaderOutRel(p, q)[c] # inRel[Other(p)][c]
  BY DEF Untaken
<1>5. \A c : c \in Unread(p, s) <=> c \in Flight(subs, s) /\ outRel[p][c] # inRel[Other(p)][c]
  BY DEF Unread, Untaken
<1> HIDE DEF subs, subs2, A, U2
<1>6. Fragmented(subs2)
  BY <1>2 DEF Fragmented
<1>7. \A c \in Flight(subs2, s) : c \in Flight(subs, s) /\ c \notin A /\ subs2[c].start = subs[c].start
  BY <1>2 DEF Flight
<1>8. \A c \in Flight(subs, s) : c \notin A => c \in Flight(subs2, s)
  BY <1>2 DEF Flight
<1>9. \A c \in Flight(subs, s) : c \in SubChannel /\ subs[c].state # "DIRTY"
  BY DEF Flight
<1>10. \A c \in U2 : c \in Unread(p, s) /\ subs2[c].start = subs[c].start
  BY <1>3, <1>4, <1>5, <1>7, <1>9
<1> QED BY <1>6, <1>7, <1>8, <1>10 DEF subs, subs2, A, U2

\* What is under way is not acknowledged.
LEMMA OpenerNotAcked ==
  ASSUME IInv, NEW p \in Peer, NEW q \in net[p], Fresh(p, q), NEW s \in Stream,
         NEW d \in Openers(p, s)
  PROVE  d.sub \notin AckedSubs(p, q)
<1>1. SUFFICES ASSUME d.sub \in AckedSubs(p, q) PROVE FALSE
  OBVIOUS
<1>2. d.sub \in SubChannel /\ Acknowledged(p, q, d.sub) /\ sub[p][d.sub].state = "WAITING"
  BY <1>1 DEF AckedSubs
<1>3. SubChannelInv(p, d.sub) /\ q \in FreshReply(p) /\ d \in FreshData(p, d.sub)
  BY <1>2 DEF IInv, BitsAgree, FreshReply, FreshData, Openers
<1> QED BY <1>2, <1>3 DEF SubChannelInv

\* A header takes nothing from the sender that is not handled or on its way: an
\* item that leaves the waiting list has been opened.
LEMMA HeaderInOrder ==
  ASSUME IInv, DInv, NEW p \in Peer, NEW q \in net[p], Fresh(p, q), NEW s \in Stream,
         NEW off, PlacedOf(p, s, off)
  PROVE  LET subs2 == HeaderSub(p, q)
             U2 == Untaken(subs2, HeaderOutRel(p, q), inRel[Other(p)], s)
             list2 == HeaderWaiting(p, q)[s]
         IN  \E off2 :
               /\ Placed(list2, off2, Outbox[p][s], Buffered(p, s), sent[p][s])
               /\ Front(subs2, s, U2, list2, off2) \in Nat
               /\ FrontOf(p, s, off) <= Front(subs2, s, U2, list2, off2)
               /\ \A d \in Openers(p, s) : \A k \in Nat :
                    Passed(sub[p], s, off, d.sub, k) => Passed(subs2, s, off2, d.sub, k)
<1> DEFINE subs == sub[p]
<1> DEFINE subs2 == HeaderSub(p, q)
<1> DEFINE U == Unread(p, s)
<1> DEFINE U2 == Untaken(subs2, HeaderOutRel(p, q), inRel[Other(p)], s)
<1> DEFINE list == waitingList[p][s]
<1> DEFINE queue == Outbox[p][s]
<1> DEFINE buffered == Buffered(p, s)
<1> DEFINE n == sent[p][s]
<1> DEFINE D == Openers(p, s)
<1> DEFINE A == AckedSubs(p, q)
<1>1. /\ Fragmented(subs) /\ Waiting(list) /\ Carry(subs, s, list)
      /\ queue \in Seq(Msg) /\ n \in Nat /\ n <= Len(queue)
  BY Direction
<1>2. /\ Fragmented(subs2)
      /\ \A c \in Flight(subs2, s) : c \in Flight(subs, s) /\ c \notin A /\ subs2[c].start = subs[c].start
      /\ \A c \in Flight(subs, s) : c \notin A => c \in Flight(subs2, s)
      /\ \A c \in U2 : c \in U /\ subs2[c].start = subs[c].start
  BY HeaderUntaken
<1>3. PICK list2 :
        /\ Waiting(list2) /\ Len(list2) = Len(list) /\ (list2 = <<>> <=> list = <<>>)
        /\ \A i \in 2 .. Len(list) : list2[i] = list[i]
        /\ list # <<>> =>
             /\ list2[1].msgs = list[1].msgs /\ list2[1].file = list[1].file
             /\ list2[1].bytes = list[1].bytes
             /\ list2[1].acked = list[1].acked + AckedFragments(p, q, s)
             /\ SentFragments(list2[1]) = SentFragments(list[1])
             /\ AckedFragments(p, q, s) \in Nat
        /\ Carry(subs2, s, list2)
        /\ HeaderWaiting(p, q)[s] = CheckWaitingList(list2, q.ack)
  <2>1. WellFormed(sub[p]) /\ ValidHeader(p, q)
    BY FreshIsValid DEF IInv, HeaderTypeOK
  <2>2. list = waitingList[p][s] /\ Fragmented(sub[p]) /\ Waiting(list) /\ Carry(sub[p], s, list)
    BY <1>1
  <2> HIDE DEF list
  <2> QED BY ONLY p \in Peer, s \in Stream, <2>1, <2>2, HeaderFlight
<1>4. \A d \in D : d.sub \notin A
  BY OpenerNotAcked
<1>5. Placed(list, off, queue, buffered, n) /\ FrontOf(p, s, off) = Front(subs, s, U, list, off)
  BY DEF PlacedOf, FrontOf
<1> DEFINE list3 == HeaderWaiting(p, q)[s]
<1> HIDE DEF subs, subs2, U, U2, list, queue, buffered, n, D, A, list3
<1>6. Placed(list2, off, queue, buffered, n)
  <2>1. \A i \in 1 .. Len(list) : list2[i].msgs = list[i].msgs
    <3>1. TAKE i \in 1 .. Len(list)
    <3>2. list # <<>> /\ (i = 1 \/ i \in 2 .. Len(list))
      BY <1>1 DEF Waiting
    <3> QED BY <1>3, <3>2
  <2> QED BY <1>3, <1>5, <2>1, PlacedSame
<1>7. ASSUME list3 = list2
      PROVE  /\ Front(subs2, s, U2, list2, off) \in Nat
             /\ Front(subs, s, U, list, off) <= Front(subs2, s, U2, list2, off)
             /\ \A d \in D : \A k \in Nat :
                  Passed(subs, s, off, d.sub, k) => Passed(subs2, s, off, d.sub, k)
  <2>1. list # <<>> /\ Unopen(subs2, s, U2, list2[1]) => Unopen(subs, s, U, list[1])
    BY <1>2, <1>3 DEF Unopen
  <2>2. list = <<>> <=> list2 = <<>>
    BY <1>3
  <2>3. /\ Front(subs2, s, U2, list2, off) \in Nat
        /\ Front(subs, s, U, list, off) <= Front(subs2, s, U2, list2, off)
    BY <1>1, <1>5, <2>1, <2>2, FrontGrows
  <2>4. \A d \in D : \A k \in Nat : Passed(subs, s, off, d.sub, k) => Passed(subs2, s, off, d.sub, k)
    BY <1>2, <1>4 DEF Passed
  <2> QED BY <2>3, <2>4
<1>8. ASSUME list3 = Tail(list2), list2 # <<>>
      PROVE  \E off2 : /\ Placed(list3, off2, queue, buffered, n)
                       /\ Front(subs2, s, U2, list3, off2) \in Nat
                       /\ Front(subs, s, U, list, off) <= Front(subs2, s, U2, list3, off2)
                       /\ \A d \in D : \A k \in Nat :
                            Passed(subs, s, off, d.sub, k) => Passed(subs2, s, off2, d.sub, k)
  <2>1. PICK off2 : Placed(list3, off2, queue, buffered, n) /\ off2[1] = off[2]
    BY <1>1, <1>3, <1>6, <1>8, PlacedRemoved
  <2>2. Waiting(list3)
    BY <1>3, <1>8, HeadRemoved
  <2>3. /\ Front(subs2, s, U2, list3, off2) \in Nat /\ off2[1] <= Front(subs2, s, U2, list3, off2)
        /\ off2[1] \in Nat
    BY <1>1, <2>1, <2>2, FrontFacts
  <2>4. list # <<>>
    BY <1>3, <1>8
  <2>5. /\ off[1] \in Nat /\ off[2] \in Nat /\ off[1] < off[2]
        /\ Front(subs, s, U, list, off) \in Nat /\ Front(subs, s, U, list, off) <= off[2]
    BY <1>1, <1>5, <2>4, FrontFacts
  <2>6. \A d \in D : \A k \in Nat : Passed(subs, s, off, d.sub, k) => Passed(subs2, s, off2, d.sub, k)
    <3>1. \A k \in Nat : k <= off[1] \/ k <= off[2] => k <= off2[1]
      BY <2>1, <2>5
    <3> QED BY <3>1 DEF Passed
  <2> QED BY <2>1, <2>3, <2>5, <2>6
<1>9. list3 = list2 \/ (list3 = Tail(list2) /\ list2 # <<>>)
  BY <1>3 DEF CheckWaitingList, list3
<1>10. \E off2 : /\ Placed(list3, off2, queue, buffered, n)
                 /\ Front(subs2, s, U2, list3, off2) \in Nat
                 /\ Front(subs, s, U, list, off) <= Front(subs2, s, U2, list3, off2)
                 /\ \A d \in D : \A k \in Nat :
                      Passed(subs, s, off, d.sub, k) => Passed(subs2, s, off2, d.sub, k)
  <2>1. CASE list3 = list2
    BY <1>6, <1>7, <2>1
  <2>2. CASE list3 = Tail(list2) /\ list2 # <<>>
    BY <1>8, <2>2
  <2> QED BY <1>9, <2>1, <2>2
<1> QED BY <1>5, <1>10 DEF subs, subs2, U2, list3, queue, buffered, n, D

\* ProcessPacket, for the direction it acknowledges.
LEMMA AcknowledgedInOrder ==
  ASSUME IInv, DInv, NEW p \in Peer, NEW q \in net[p], Fresh(p, q),
         NEW taken, NEW lists, NEW outcomes, NEW cleared,
         PacketEffect(p, q, taken, lists, outcomes, cleared), NEW s \in Stream,
         NEW off, NEW h, NEW m, NEW at, NEW to, InOrder(p, s, off, h, m, at, to)
  PROVE  \E off2 : InOrder(p, s, off2, h, m, at, to)'
<1>1. /\ DOMAIN sub = Peer /\ DOMAIN outRel = Peer /\ DOMAIN inRel = Peer /\ DOMAIN inSeq = Peer
      /\ DOMAIN net = Peer /\ DOMAIN waitingList = Peer /\ DOMAIN streamReliable = Peer
      /\ DOMAIN receiveList = Peer /\ DOMAIN delivered = Peer /\ Other(p) \in Peer /\ Other(p) # p
  BY OtherOther DEF IInv, HeaderTypeOK, DInv, Sending, Receiving, Histories
<1>2. /\ sub'[p] = IF cleared THEN ClearedSub(HeaderSub(p, q)) ELSE HeaderSub(p, q)
      /\ ~cleared => outRel'[p] = HeaderOutRel(p, q)
      /\ waitingList'[p] = IF cleared THEN [t \in Stream |-> <<>>] ELSE HeaderWaiting(p, q)
      /\ streamReliable'[p] = IF cleared THEN <<>> ELSE streamReliable[p]
      /\ receiveList'[Other(p)] = receiveList[Other(p)] /\ delivered'[Other(p)] = delivered[Other(p)]
      /\ inRel'[Other(p)] = inRel[Other(p)] /\ inSeq'[Other(p)] = inSeq[Other(p)]
      /\ net'[Other(p)] = net[Other(p)] /\ sent' = sent
  BY <1>1 DEF PacketEffect
<1>3. Openers(p, s)' = Openers(p, s)
  BY <1>2 DEF Openers, Fresh
<1>4. CASE cleared
  <2>1. waitingList'[p][s] = <<>> /\ Buffered(p, s)' = <<>>
    BY <1>2, <1>4 DEF Buffered
  <2>2. PICK off2 : /\ PlacedOf(p, s, off2)' /\ FrontOf(p, s, off2)' \in Nat
                    /\ FrontOf(p, s, off) <= FrontOf(p, s, off2)'
                    /\ \A c : \A k \in Nat :
                         Passed(sub[p], s, off, c, k) => Passed(sub'[p], s, off2, c, k)
    BY <1>2, <2>1, NothingPlaced DEF InOrder
  <2>3. InOrder(p, s, off2, h, m, at, to)'
    BY <1>2, <1>3, <2>2, SenderInOrder
  <2> QED BY <2>3
<1>5. CASE ~cleared
  <2> DEFINE subs2 == HeaderSub(p, q)
  <2> DEFINE U2 == Untaken(subs2, HeaderOutRel(p, q), inRel[Other(p)], s)
  <2> DEFINE list2 == HeaderWaiting(p, q)[s]
  <2>1. PICK off2 :
          /\ Placed(list2, off2, Outbox[p][s], Buffered(p, s), sent[p][s])
          /\ Front(subs2, s, U2, list2, off2) \in Nat
          /\ FrontOf(p, s, off) <= Front(subs2, s, U2, list2, off2)
          /\ \A d \in Openers(p, s) : \A k \in Nat :
               Passed(sub[p], s, off, d.sub, k) => Passed(subs2, s, off2, d.sub, k)
    BY HeaderInOrder DEF InOrder
  <2>2. sub'[p] = subs2 /\ waitingList'[p][s] = list2 /\ Buffered(p, s)' = Buffered(p, s)
    BY <1>2, <1>5 DEF Buffered
  <2>3. Unread(p, s)' = U2
    BY <1>2, <1>5, <2>2 DEF Unread
  <2>4. PlacedOf(p, s, off2)' /\ FrontOf(p, s, off2)' = Front(subs2, s, U2, list2, off2)
    <3>1. sub[p]' = subs2 /\ waitingList[p][s]' = list2 /\ sent[p][s]' = sent[p][s]
      BY <1>2, <2>2
    <3> QED BY <2>1, <2>2, <2>3, <3>1 DEF PlacedOf, FrontOf
  <2> HIDE DEF subs2, U2, list2
  <2>5. InOrder(p, s, off2, h, m, at, to)'
    BY <1>2, <1>3, <2>1, <2>2, <2>4, SenderInOrder
  <2> QED BY <2>5
<1> QED BY <1>4, <1>5

-----------------------------------------------------------------------------
(* ProcessPacket, the data *)

\* When no handler fails, what is left of a handled buffer is garbled.
LEMMA FailedGarbled ==
  ASSUME FailMsgs = {}, NEW r, Allocated(r), Complete(r), NEW outcome \in Outcomes(r),
         outcome # "ok", outcome # "clear"
  PROVE  ~Intact(r)
<1> SUFFICES ASSUME Intact(r) PROVE FALSE
  OBVIOUS
<1> DEFINE S == Stoppers(r)
<1>1. S # {} /\ ~(r.item[First(S)] \in ClearMsgs)
  BY DEF Outcomes
<1>2. S \in SUBSET Nat
  <2>1. r.item \in Seq(Msg)
    BY DEF Allocated
  <2>2. DOMAIN r.item \subseteq Nat
    BY <2>1
  <2> QED BY <2>2 DEF Stoppers
<1>3. First(S) \in S
  <2> HIDE DEF S
  <2> QED BY <1>1, <1>2, FirstIsLeast
<1>4. r.item[First(S)] \in ClearMsgs
  <2> DEFINE i == First(S)
  <2> HIDE DEF i
  <2>1. i \in S
    BY <1>3 DEF i
  <2>2. r.item[i] \in ClearMsgs
    BY <2>1 DEF Stoppers
  <2> QED BY <2>2 DEF i
<1> QED BY <1>1, <1>4

\* CheckReceivingList for one stream.
LEMMA CheckedStream ==
  ASSUME FailMsgs = {}, NEW lists, Buffers(lists), NEW outcomes, NEW s \in Stream,
         outcomes[s] \in Outcomes(lists[s])
  PROVE  LET r2 == CheckedLists(lists, outcomes)[s]
         IN  /\ r2 \in {lists[s], NoBuffer}
             /\ Processes(lists, outcomes, s) =>
                  lists[s] # NoBuffer /\ (r2 = NoBuffer \/ ~Intact(lists[s]))
<1> DEFINE r2 == CheckedLists(lists, outcomes)[s]
<1>1. r2 = IF \/ Clears(lists, outcomes)
              \/ Processes(lists, outcomes, s) /\ outcomes[s] = "ok"
           THEN NoBuffer ELSE lists[s]
  BY DEF CheckedLists
<1>2. ASSUME Processes(lists, outcomes, s)
      PROVE  lists[s] # NoBuffer /\ (r2 = NoBuffer \/ ~Intact(lists[s]))
  <2>1. Complete(lists[s]) /\ lists[s] # NoBuffer
    BY <1>2 DEF Processes, Complete
  <2>2. Allocated(lists[s])
    BY <2>1 DEF Buffers
  <2>3. outcomes[s] = "clear" => Clears(lists, outcomes)
    BY <1>2 DEF Clears
  <2>4. outcomes[s] # "ok" /\ outcomes[s] # "clear" => ~Intact(lists[s])
    BY <2>1, <2>2, FailedGarbled
  <2> QED BY <1>1, <1>2, <2>1, <2>3, <2>4
<1>3. r2 \in {lists[s], NoBuffer}
  BY <1>1
<1> QED BY <1>2, <1>3

\* Of what is under way only what comes after the packet that has come still counts.
LEMMA OpenersLeft ==
  ASSUME IInv, NEW p \in Peer, NEW q \in net[p], Fresh(p, q), NEW o \in Peer, Other(o) = p,
         inSeq'[p] = q.seq, net'[p] \subseteq net[p], NEW s
  PROVE  /\ Openers(o, s)' \subseteq Openers(o, s)
         /\ \A d \in Openers(o, s)' : q.seq < d.seq
<1>1. inSeq[p] \in Nat /\ \A d \in net[p] : d.seq \in Nat
  BY DEF IInv, HeaderTypeOK
<1>2. ASSUME NEW d \in Openers(o, s)'
      PROVE  d \in Openers(o, s) /\ q.seq < d.seq
  <2>1. d \in net'[p] /\ d.seq > inSeq'[p] /\ d.sub # NoSub /\ Carries(d, s) /\ d.data[s].start = 0
    BY <1>2 DEF Openers, Fresh, Carries
  <2>2. d.seq > q.seq /\ d.seq > inSeq[p] /\ d \in net[p]
    BY <1>1, <2>1 DEF Fresh
  <2> QED BY <1>1, <2>1, <2>2 DEF Openers, Fresh
<1> QED BY <1>2

\* The first fragment of an item has come: the item is behind those opened before,
\* before those still under way, and before what the sender still has to open.
LEMMA OpenedNext ==
  ASSUME IInv, DInv, NEW p \in Peer, NEW q \in net[p], Fresh(p, q), q.sub # NoSub,
         NEW o \in Peer, Other(o) = p, NEW s \in Stream, Carries(q, s), q.data[s].start = 0,
         NEW off, NEW h, NEW m, NEW at, NEW to, InOrder(o, s, off, h, m, at, to),
         NEW front2, front2 = Front(sub[o], s, Unread(o, s) \ {q.sub}, waitingList[o][s], off)
  PROVE  /\ to[q.seq] \in Nat /\ to[q.seq] <= front2
         /\ \E a \in Nat : /\ m <= a /\ a <= to[q.seq]
                           /\ q.data[s].item = Cut(Outbox[o][s], a, to[q.seq])
         /\ \A d \in Openers(o, s) : q.seq < d.seq => to[q.seq] <= at[d.seq]
<1> DEFINE subs == sub[o]
           U == Unread(o, s)
           list == waitingList[o][s]
           queue == Outbox[o][s]
           n == sent[o][s]
           D == Openers(o, s)
           k == to[q.seq]
<1>1. q \in D
  BY DEF Openers
<1>2. q.seq \in Nat
  BY DEF IInv, HeaderTypeOK
<1>3. Travels(D, s, queue, subs, off, m, at, to)
  BY DEF InOrder
<1>4. /\ Fragmented(subs) /\ Waiting(list) /\ Carry(subs, s, list)
      /\ U \in SUBSET Flight(subs, s)
      /\ queue \in Seq(Msg) /\ n \in Nat /\ n <= Len(queue)
  BY Direction
<1>5. Placed(list, off, queue, Buffered(o, s), n)
  BY DEF InOrder, PlacedOf
<1> HIDE DEF subs, U, list, queue, n, D, k
<1>6. /\ k \in Nat /\ at[q.seq] \in Nat /\ m <= at[q.seq] /\ at[q.seq] <= k
      /\ q.data[s].item = Cut(queue, at[q.seq], k)
      /\ Passed(subs, s, off, q.sub, k)
      /\ \A d \in D : q.seq < d.seq => k <= at[d.seq]
  <2>1. to \in [Nat -> Nat] /\ at \in [Nat -> Nat]
    BY <1>3 DEF Travels
  <2>2. k \in Nat /\ at[q.seq] \in Nat
    BY <1>2, <2>1 DEF k
  <2> QED BY <1>1, <1>3, <2>2 DEF Travels, k
<1>7. off[1] \in Nat /\ off[1] <= Front(subs, s, U \ {q.sub}, list, off)
      /\ Front(subs, s, U \ {q.sub}, list, off) \in Nat
  BY <1>4, <1>5, FrontFacts
<1>8. front2 = Front(subs, s, U \ {q.sub}, list, off)
  BY DEF subs, U, list
<1>9. k <= front2
  <2>1. CASE k <= off[1]
    BY <1>6, <1>7, <1>8, <2>1
  <2>2. CASE q.sub \in Flight(subs, s) /\ subs[q.sub].start[s] = 0 /\ k <= off[2]
    <3>1. Front(subs, s, U \ {q.sub}, list, off) = off[2]
      <4> DEFINE c == q.sub
      <4> DEFINE U2 == U \ {c}
      <4>1. U2 \in SUBSET Flight(subs, s) /\ c \notin U2 /\ c \in Flight(subs, s) /\ subs[c].start[s] = 0
        BY <1>4, <2>2
      <4> HIDE DEF c, U2
      <4>2. Front(subs, s, U2, list, off) = off[2]
        BY ONLY s \in Stream, <1>4, <4>1, FirstTaken
      <4> QED BY <4>2 DEF c, U2
    <3> QED BY <1>8, <2>2, <3>1
  <2> QED BY <1>6, <2>1, <2>2 DEF Passed
<1> QED BY <1>6, <1>9 DEF queue, D, k

\* What the read loop makes of a stream it can read.
LEMMA StreamRead ==
  ASSUME IInv, DInv, NEW p \in Peer, NEW q \in net[p], Fresh(p, q), q.sub # NoSub,
         NEW o \in Peer, Other(o) = p, NEW s \in Stream, ~ReadFails(p, q, s),
         NEW off, NEW h, NEW m, NEW at, NEW to, InOrder(o, s, off, h, m, at, to),
         NEW front2, front2 = Front(sub[o], s, Unread(o, s) \ {q.sub}, waitingList[o][s], off),
         NEW r3, r3 = IF Carries(q, s) THEN ReadData(receiveList[p][s], q.data[s])
                      ELSE receiveList[p][s]
  PROVE  /\ r3 = NoBuffer \/ Allocated(r3)
         /\ front2 \in Nat /\ FrontOf(o, s, off) <= front2 /\ front2 <= sent[o][s]
         /\ \E m2 : /\ Ordered(Outbox[o][s], r3, delivered[p][s], front2, h, m2)
                    /\ \A d \in Openers(o, s) : q.seq < d.seq => m2 <= at[d.seq]
<1> DEFINE subs == sub[o]
           U == Unread(o, s)
           list == waitingList[o][s]
           queue == Outbox[o][s]
           n == sent[o][s]
           D == Openers(o, s)
           r == receiveList[p][s]
           d0 == q.data[s]
           seen == delivered[p][s]
           front == FrontOf(o, s, off)
<1>1. /\ Fragmented(subs) /\ Waiting(list) /\ Carry(subs, s, list)
      /\ U \in SUBSET Flight(subs, s)
      /\ queue \in Seq(Msg) /\ n \in Nat /\ n <= Len(queue)
  BY Direction
<1>2. Placed(list, off, queue, Buffered(o, s), n)
  BY DEF InOrder, PlacedOf
<1>3. Ordered(queue, r, seen, front, h, m) /\ Travels(D, s, queue, subs, off, m, at, to)
  BY DEF InOrder
<1>4. front \in Nat /\ front = Front(subs, s, U, list, off)
  BY PlacedOfFacts DEF InOrder, FrontOf
<1>5. front2 = Front(subs, s, U \ {q.sub}, list, off)
  OBVIOUS
<1>6. r = NoBuffer \/ Allocated(r)
  BY ReceiverFacts
<1>7. Carries(q, s) => Piece(d0) /\ CanRead(r, d0)
  <2>1. d0 = NoData \/ Piece(d0)
    BY DEF DInv, Receiving, Pieces
  <2> QED BY <2>1 DEF Carries, ReadFails
<1>8. r3 = IF Carries(q, s) THEN ReadData(r, d0) ELSE r
  OBVIOUS
<1> HIDE DEF subs, U, list, queue, n, r, seen, front
<1>9. front2 \in Nat /\ front <= front2 /\ front2 <= n
  <2> DEFINE U2 == U \ {q.sub}
  <2>1. list # <<>> /\ Unopen(subs, s, U2, list[1]) => Unopen(subs, s, U, list[1])
    BY DEF Unopen
  <2> HIDE DEF U2
  <2>2. Front(subs, s, U2, list, off) \in Nat /\ Front(subs, s, U, list, off) <= Front(subs, s, U2, list, off)
    BY <1>1, <1>2, <2>1, FrontGrows
  <2>3. Front(subs, s, U2, list, off) <= n
    BY <1>1, <1>2, FrontFacts
  <2> QED BY <1>4, <1>5, <2>2, <2>3 DEF U2
<1>10. r3 = NoBuffer \/ Allocated(r3)
  BY <1>6, <1>7, <1>8, BufferRead
<1>11. \A d \in D : q.seq < d.seq => m <= at[d.seq]
  BY <1>3 DEF Travels
<1>12. \E m2 : /\ Ordered(queue, r3, seen, front2, h, m2)
               /\ \A d \in D : q.seq < d.seq => m2 <= at[d.seq]
  <2>1. CASE ~Carries(q, s)
    <3>1. r3 \in {r, NoBuffer}
      BY <1>8, <2>1
    <3>2. Ordered(queue, r3, seen, front2, h, m)
      BY ONLY <1>3, <1>4, <1>9, <3>1, OrderedWider
    <3> QED BY <1>11, <3>2
  <2>2. CASE Carries(q, s) /\ d0.start # 0
    <3> HIDE DEF D, d0
    <3>1. Ordered(queue, ReadData(r, d0), seen, front2, h, m)
      BY ONLY <1>3, <1>4, <1>6, <1>7, <1>9, <2>2, ReadOrdered
    <3> QED BY <1>8, <1>11, <2>2, <3>1
  <2>3. CASE Carries(q, s) /\ d0.start = 0
    <3> DEFINE m2 == to[q.seq]
    <3>1. /\ m2 \in Nat /\ m2 <= front2
          /\ \E a \in Nat : m <= a /\ a <= m2 /\ d0.item = Cut(queue, a, m2)
          /\ \A d \in D : q.seq < d.seq => m2 <= at[d.seq]
      BY <2>3, OpenedNext DEF queue
    <3> HIDE DEF D, d0, m2
    <3>2. Ordered(queue, ReadData(r, d0), seen, front2, h, m2)
      BY ONLY <1>3, <1>4, <1>6, <1>7, <1>9, <2>3, <3>1, ReadOrdered
    <3> QED BY <1>8, <2>3, <3>1, <3>2
  <2> QED BY <2>1, <2>2, <2>3
<1> QED BY <1>9, <1>10, <1>12 DEF queue, seen, front, n

\* ProcessPacket, for the direction whose data it takes: an item stored is behind
\* those handled, and the others that are under way or waiting are behind it.
LEMMA TakenInOrder ==
  ASSUME FailMsgs = {}, IInv, DInv, NEW p \in Peer, NEW q \in net[p], Fresh(p, q),
         NEW taken, taken, NEW lists, NEW outcomes, NEW cleared,
         PacketEffect(p, q, taken, lists, outcomes, cleared),
         NEW o \in Peer, Other(o) = p, o # p, NEW s \in Stream,
         NEW off, NEW h, NEW m, NEW at, NEW to, InOrder(o, s, off, h, m, at, to)
  PROVE  \E k, m2 : InOrder(o, s, off, k, m2, at, to)'
<1> DEFINE queue == Outbox[o][s]
           seen == delivered[p][s]
           seen2 == delivered'[p][s]
           r3 == lists[s]
           r4 == receiveList'[p][s]
           front2 == Front(sub[o], s, Unread(o, s) \ {q.sub}, waitingList[o][s], off)
           D == Openers(o, s)
           D2 == Openers(o, s)'
           subs == sub[o]
<1>1. /\ DOMAIN sub = Peer /\ DOMAIN outRel = Peer /\ DOMAIN inRel = Peer /\ DOMAIN inSeq = Peer
      /\ DOMAIN net = Peer /\ DOMAIN waitingList = Peer /\ DOMAIN streamReliable = Peer
      /\ DOMAIN receiveList = Peer /\ DOMAIN delivered = Peer
      /\ inRel[p] \in [SubChannel -> Bit] /\ outRel[o] \in [SubChannel -> Bit]
      /\ Buffers(receiveList[p])
  BY DEF IInv, HeaderTypeOK, DInv, Sending, Receiving, Histories
<1>2. /\ sub'[o] = sub[o] /\ outRel'[o] = outRel[o] /\ waitingList'[o] = waitingList[o]
      /\ streamReliable'[o] = streamReliable[o] /\ sent' = sent
      /\ receiveList'[p] = CheckedLists(lists, outcomes)
      /\ inRel'[p] = Flipped(inRel[p], q.sub)
      /\ inSeq'[p] = q.seq /\ net'[p] = Duplicable(net[p], q)
      /\ seen2 = IF Processes(lists, outcomes, s) THEN seen \o Handled(lists[s]) ELSE seen
  BY <1>1 DEF PacketEffect
<1>3. /\ q.sub # NoSub /\ \A t \in Stream : ~ReadFails(p, q, t)
      /\ lists = ReadLists(p, q)
      /\ outcomes[s] \in Outcomes(lists[s])
  BY DEF PacketEffect, ReadsAll, Results
<1>4. \A t \in Stream : lists[t] = IF Carries(q, t) THEN ReadData(receiveList[p][t], q.data[t])
                                   ELSE receiveList[p][t]
  BY <1>3 DEF ReadLists
<1>5. Buffers(lists)
  <2>1. DOMAIN lists = Stream
    BY <1>3 DEF ReadLists
  <2>2. ASSUME NEW t \in Stream PROVE lists[t] = NoBuffer \/ Allocated(lists[t])
    <3> DEFINE r == receiveList[p][t]
    <3> DEFINE d == q.data[t]
    <3>1. r = NoBuffer \/ Allocated(r)
      BY ReceiverFacts
    <3>2. d = NoData \/ Piece(d)
      BY DEF DInv, Receiving, Pieces
    <3>3. Carries(q, t) => Piece(d) /\ CanRead(r, d)
      BY <1>3, <3>2 DEF Carries, ReadFails
    <3>4. lists[t] = IF Carries(q, t) THEN ReadData(r, d) ELSE r
      BY <1>4
    <3> HIDE DEF r, d
    <3> QED BY <3>1, <3>3, <3>4, BufferRead
  <2> QED BY <2>1, <2>2 DEF Buffers
<1>6. /\ r3 = NoBuffer \/ Allocated(r3)
      /\ front2 \in Nat /\ FrontOf(o, s, off) <= front2 /\ front2 <= sent[o][s]
      /\ \E m2 : /\ Ordered(queue, r3, seen, front2, h, m2)
                 /\ \A d \in D : q.seq < d.seq => m2 <= at[d.seq]
  <2>1. front2 = Front(sub[o], s, Unread(o, s) \ {q.sub}, waitingList[o][s], off)
    OBVIOUS
  <2>2. r3 = IF Carries(q, s) THEN ReadData(receiveList[p][s], q.data[s]) ELSE receiveList[p][s]
    BY <1>4
  <2> HIDE DEF r3, front2
  <2> QED BY <1>3, <2>1, <2>2, StreamRead
<1>7. PICK m2 : /\ Ordered(queue, r3, seen, front2, h, m2)
                /\ \A d \in D : q.seq < d.seq => m2 <= at[d.seq]
  BY <1>6
<1>8. /\ r4 \in {r3, NoBuffer}
      /\ \/ seen2 = seen
         \/ r3 # NoBuffer /\ seen2 = seen \o Handled(r3) /\ (r4 = NoBuffer \/ ~Intact(r3))
  <2>1. r4 = CheckedLists(lists, outcomes)[s]
    BY <1>2
  <2>2. outcomes[s] \in Outcomes(lists[s])
    BY <1>3
  <2>3. /\ r4 \in {r3, NoBuffer}
        /\ Processes(lists, outcomes, s) => r3 # NoBuffer /\ (r4 = NoBuffer \/ ~Intact(r3))
    BY <1>5, <2>1, <2>2, CheckedStream
  <2> HIDE DEF seen, seen2, r4
  <2> QED BY <1>2, <2>3
<1>9. \E k : Ordered(queue, r4, seen2, front2, k, m2)
  <2>1. seen \in Seq(Msg \cup {Garbled}) /\ queue \in Seq(Msg) /\ front2 \in Nat /\ front2 <= Len(queue)
    <3>1. seen \in Seq(Msg \cup {Garbled})
      BY ReceiverFacts
    <3>2. queue \in Seq(Msg) /\ sent[o][s] \in Nat /\ sent[o][s] <= Len(queue)
      BY Direction
    <3>3. Len(queue) \in Nat
      BY <3>2
    <3> HIDE DEF front2, queue
    <3> QED BY <1>6, <3>1, <3>2, <3>3
  <2> HIDE DEF queue, seen, seen2, r3, r4, front2
  <2> QED BY ONLY <1>6, <1>7, <1>8, <2>1, DeliveredOrdered
<1>10. D2 \in SUBSET D /\ \A d \in D2 : m2 <= at[d.seq]
  <2>1. net'[p] \subseteq net[p]
    BY <1>2 DEF Duplicable
  <2>2. Openers(o, s)' \subseteq Openers(o, s) /\ \A d \in Openers(o, s)' : q.seq < d.seq
    BY <1>2, <2>1, OpenersLeft
  <2> QED BY <1>7, <2>2
<1>11. Travels(D2, s, queue, subs, off, m2, at, to)
  <2>1. Travels(D, s, queue, subs, off, m, at, to)
    BY DEF InOrder
  <2>2. \A d \in D : d.seq \in Nat
    BY OpenersFacts
  <2>3. \A d \in D2 : \A k \in Nat : Passed(subs, s, off, d.sub, k) => Passed(subs, s, off, d.sub, k)
    OBVIOUS
  <2> HIDE DEF D, D2, queue, subs
  <2> QED BY ONLY <1>10, <2>1, <2>2, <2>3, TravelsOn
<1>12. Unread(o, s)' = Unread(o, s) \ {q.sub}
  <2> DEFINE c == q.sub
  <2>1. c \in SubChannel /\ outRel[o][c] # inRel[p][c]
    <3>1. c \in SubChannel
      BY <1>3 DEF IInv, HeaderTypeOK
    <3>2. SubChannelInv(o, c)
      BY <3>1 DEF IInv, BitsAgree
    <3>3. q \in FreshData(o, c)
      BY DEF FreshData
    <3> QED BY <3>1, <3>2, <3>3 DEF SubChannelInv
  <2>2. inRel'[p][c] = 1 - inRel[p][c]
        /\ \A e \in SubChannel : e # c => inRel'[p][e] = inRel[p][e]
    BY <1>1, <1>2, <2>1 DEF Flipped
  <2>3. inRel[p][c] \in {0, 1} /\ outRel[o][c] \in {0, 1}
    BY <1>1, <2>1 DEF Bit
  <2>4. outRel[o][c] = inRel'[p][c]
    BY <2>1, <2>2, <2>3
  <2>5. Unread(o, s) = {e \in Flight(sub[o], s) : outRel[o][e] # inRel[p][e]}
    BY DEF Unread, Untaken
  <2>6. Unread(o, s)' = {e \in Flight(sub[o], s) : outRel[o][e] # inRel'[p][e]}
    BY <1>2 DEF Unread, Untaken
  <2>7. \A e \in Flight(sub[o], s) : e \in SubChannel
    BY DEF Flight
  <2> HIDE DEF c
  <2>8. {e \in Flight(sub[o], s) : outRel[o][e] # inRel'[p][e]}
          = {e \in Flight(sub[o], s) : outRel[o][e] # inRel[p][e]} \ {c}
    BY ONLY <2>2, <2>4, <2>7
  <2> QED BY <2>5, <2>6, <2>8 DEF c
<1>13. FrontOf(o, s, off)' = front2 /\ PlacedOf(o, s, off)'
  <2>1. sub[o]' = sub[o] /\ waitingList[o][s]' = waitingList[o][s] /\ sent[o][s]' = sent[o][s]
        /\ Buffered(o, s)' = Buffered(o, s)
    BY <1>2 DEF Buffered
  <2>2. PlacedOf(o, s, off)
    BY DEF InOrder
  <2>3. FrontOf(o, s, off)' = front2
    BY <1>12, <2>1 DEF FrontOf
  <2> HIDE DEF front2
  <2>4. PlacedOf(o, s, off)'
    BY <2>1, <2>2 DEF PlacedOf
  <2> QED BY <2>3, <2>4
<1>14. PICK k : Ordered(queue, r4, seen2, front2, k, m2)
  BY <1>9
<1>15. InOrder(o, s, off, k, m2, at, to)'
  <2>1. receiveList[Other(o)][s]' = r4 /\ delivered[Other(o)][s]' = seen2 /\ sub[o]' = subs
    BY <1>2
  <2> HIDE DEF queue, r4, seen2, front2, D2, subs
  <2> QED BY <1>11, <1>13, <1>14, <2>1 DEF InOrder, queue, D2
<1> QED BY <1>15

\* A packet that is not taken and leaves the buffers as they were.
LEMMA NotTakenInOrder ==
  ASSUME IInv, DInv, NEW p \in Peer, NEW q \in net[p], Fresh(p, q),
         NEW taken, ~taken, NEW lists, lists = receiveList[p], NEW outcomes, NEW cleared,
         PacketEffect(p, q, taken, lists, outcomes, cleared),
         NEW o \in Peer, Other(o) = p, o # p, NEW s \in Stream,
         NEW off, NEW h, NEW m, NEW at, NEW to, InOrder(o, s, off, h, m, at, to)
  PROVE  InOrder(o, s, off, h, m, at, to)'
<1>1. /\ DOMAIN sub = Peer /\ DOMAIN outRel = Peer /\ DOMAIN inRel = Peer /\ DOMAIN inSeq = Peer
      /\ DOMAIN net = Peer /\ DOMAIN waitingList = Peer /\ DOMAIN streamReliable = Peer
      /\ DOMAIN receiveList = Peer /\ DOMAIN delivered = Peer
  BY DEF IInv, HeaderTypeOK, DInv, Sending, Receiving, Histories
<1>2. /\ sub'[o] = sub[o] /\ outRel'[o] = outRel[o] /\ waitingList'[o] = waitingList[o]
      /\ streamReliable'[o] = streamReliable[o] /\ sent' = sent
      /\ receiveList'[p] = receiveList[p] /\ inRel'[p] = inRel[p]
      /\ inSeq'[p] = q.seq /\ net'[p] = Duplicable(net[p], q)
      /\ delivered'[p][s] = delivered[p][s]
  BY <1>1 DEF PacketEffect
<1>3. Unread(o, s)' = Unread(o, s) /\ Buffered(o, s)' = Buffered(o, s)
  BY <1>2 DEF Unread, Buffered
<1>4. FrontOf(o, s, off)' = FrontOf(o, s, off)
  BY <1>2, <1>3 DEF FrontOf
<1>5. PlacedOf(o, s, off)'
  BY <1>2, <1>3 DEF PlacedOf, InOrder
<1>6. FrontOf(o, s, off) \in Nat
  BY PlacedOfFacts DEF InOrder
<1>7. FrontOf(o, s, off)' \in Nat /\ FrontOf(o, s, off) <= FrontOf(o, s, off)'
  BY <1>4, <1>6
<1>8. Openers(o, s)' \subseteq Openers(o, s)
  <2>1. net'[p] \subseteq net[p]
    BY <1>2 DEF Duplicable
  <2> QED BY <1>2, <2>1, OpenersLeft
<1>9. \A d \in Openers(o, s) : \A k \in Nat :
        Passed(sub[o], s, off, d.sub, k) => Passed(sub'[o], s, off, d.sub, k)
  BY <1>2
<1>10. receiveList'[Other(o)][s] = receiveList[Other(o)][s]
       /\ delivered'[Other(o)][s] = delivered[Other(o)][s]
  BY <1>2
<1> QED BY <1>5, <1>7, <1>8, <1>9, <1>10, SenderInOrder

\* ProcessPacket, for both directions.
LEMMA ProcessPacketInOrder ==
  ASSUME FailMsgs = {}, IInv, DInv, NEW p \in Peer, NEW q \in net[p], ProcessPacket(p, q),
         NEW o \in Peer, Other(o) \notin torn', NEW s \in Stream,
         NEW off, NEW h, NEW m, NEW at, NEW to, InOrder(o, s, off, h, m, at, to)
  PROVE  \E off2, k, m2 : InOrder(o, s, off2, k, m2, at, to)'
<1>1. Fresh(p, q)
  BY DEF ProcessPacket
<1>2. ValidHeader(p, q)
  BY <1>1, FreshIsValid
<1>3. PICK taken, lists, outcomes, cleared : PacketEffect(p, q, taken, lists, outcomes, cleared)
  BY <1>2, ProcessPacketData
<1>4. CASE o = p
  <2>1. \E off2 : InOrder(p, s, off2, h, m, at, to)'
    BY <1>1, <1>3, <1>4, AcknowledgedInOrder
  <2> QED BY <1>4, <2>1
<1>5. CASE o # p
  <2>1. Other(o) = p
    BY <1>5, OtherOther DEF Peer, Other
  <2>2. CASE taken
    <3>1. \E k, m2 : InOrder(o, s, off, k, m2, at, to)'
      BY <1>1, <1>3, <1>5, <2>1, <2>2, TakenInOrder
    <3> QED BY <3>1
  <2>3. CASE ~taken
    <3>1. lists = receiveList[p]
      <4>1. torn' = IF ~taken /\ lists # receiveList[p] THEN torn \cup {p} ELSE torn
        BY <1>3 DEF PacketEffect
      <4> QED BY <2>1, <2>3, <4>1
    <3>2. InOrder(o, s, off, h, m, at, to)'
      BY <1>1, <1>3, <1>5, <2>1, <2>3, <3>1, NotTakenInOrder
    <3> QED BY <3>2
  <2> QED BY <2>2, <2>3
<1> QED BY <1>4, <1>5

-----------------------------------------------------------------------------
(* Every state *)

\* Setup establishes the invariant: nothing was sent.
LEMMA InitOInv == Init => OInv
<1> SUFFICES ASSUME Init, NEW p \in Peer, NEW s \in Stream
             PROVE  \E off, h, m, at, to : InOrder(p, s, off, h, m, at, to)
  BY DEF OInv
<1> DEFINE queue == Outbox[p][s]
           none == <<>>
           off == [i \in 1 .. 1 |-> 0]
           zeros == [k \in Nat |-> 0]
<1>1. Other(p) \in Peer
  BY OtherOther
<1>2. /\ waitingList[p][s] = none /\ receiveList[Other(p)][s] = NoBuffer
      /\ delivered[Other(p)][s] = none /\ sent[p][s] = 0 /\ Buffered(p, s) = none
  BY <1>1 DEF Init, NoLists, Buffered
<1>3. queue \in Seq(Msg)
  BY MessageAssumption
<1>4. Openers(p, s) = {}
  BY <1>1 DEF Init, Openers
<1> HIDE DEF queue
<1>5. Cut(queue, 0, 0) = none
  <2>1. Len(queue) \in Nat
    BY <1>3
  <2>2. Cut(queue, 0, 0) = <<>>
    BY <1>3, <2>1, CutFacts
  <2> QED BY <2>2
<1>6. Len(none) = 0
  OBVIOUS
<1>7. off[1] = 0 /\ off \in [1 .. Len(none) + 1 -> Nat]
  BY <1>6
<1>8. zeros \in [Nat -> Nat]
  OBVIOUS
<1> HIDE DEF off, zeros
<1>9. Placed(none, off, queue, none, 0)
  BY <1>5, <1>6, <1>7 DEF Placed
<1>10. FrontOf(p, s, off) = 0
  BY <1>2, <1>7 DEF FrontOf, Front
<1>11. Ascending(none, queue, 0)
  <2>1. Genuine(none) = {}
    BY DEF Genuine
  <2> DEFINE f == [i \in {} |-> 0]
  <2>2. f \in [Genuine(none) -> 1 .. 0]
    BY <2>1
  <2> HIDE DEF f
  <2> QED BY <2>1, <2>2 DEF Ascending
<1>12. Ordered(queue, NoBuffer, none, 0, 0, 0)
  BY <1>11 DEF Ordered
<1>13. Travels({}, s, queue, sub[p], off, 0, zeros, zeros)
  BY <1>8 DEF Travels
<1>14. InOrder(p, s, off, 0, 0, zeros, zeros)
  <2>1. PlacedOf(p, s, off)
    BY <1>2, <1>9 DEF PlacedOf, queue
  <2> HIDE DEF none
  <2> QED BY <1>2, <1>4, <1>10, <1>12, <1>13, <2>1 DEF InOrder, queue
<1> QED BY <1>14

\* Every step keeps every direction of every stream in order.
LEMMA StepInOrder ==
  ASSUME FailMsgs = {}, IInv, DInv, [Next]_vars, NEW o \in Peer, Other(o) \notin torn',
         NEW s \in Stream, NEW off, NEW h, NEW m, NEW at, NEW to, InOrder(o, s, off, h, m, at, to)
  PROVE  \E off2, k, m2, at2, to2 : InOrder(o, s, off2, k, m2, at2, to2)'
<1>1. CASE UNCHANGED vars
  <2>1. /\ sub'[o] = sub[o] /\ outRel'[o] = outRel[o] /\ inRel'[Other(o)] = inRel[Other(o)]
        /\ waitingList'[o][s] = waitingList[o][s] /\ Buffered(o, s)' = Buffered(o, s)
        /\ sent'[o][s] = sent[o][s]
        /\ receiveList'[Other(o)][s] \in {receiveList[Other(o)][s], NoBuffer}
        /\ delivered'[Other(o)][s] = delivered[Other(o)][s]
        /\ net'[Other(o)] = net[Other(o)] /\ inSeq'[Other(o)] = inSeq[Other(o)]
    BY <1>1 DEF vars, headerVars, dataVars, historyVars, Buffered
  <2>2. InOrder(o, s, off, h, m, at, to)'
    BY <2>1, InOrderKept
  <2> QED BY <2>2
<1>2. CASE Next
  <2>1. PICK p \in Peer : \/ SendNetMsg(p) \/ SendFile(p) \/ SetChoked(p) \/ SendDatagram(p)
                          \/ Clear(p) \/ \E q \in net[p] : ProcessPacket(p, q)
    BY <1>2 DEF Next
  <2>2. CASE SendNetMsg(p)
    <3>1. InOrder(o, s, off, h, m, at, to)'
      BY <2>2, SendNetMsgInOrder
    <3> QED BY <3>1
  <2>3. CASE SendFile(p)
    <3>1. \E off2 : InOrder(o, s, off2, h, m, at, to)'
      BY <2>3, SendFileInOrder
    <3> QED BY <3>1
  <2>4. CASE SetChoked(p)
    <3>1. InOrder(o, s, off, h, m, at, to)'
      BY <2>4, SetChokedInOrder
    <3> QED BY <3>1
  <2>5. CASE SendDatagram(p)
    <3>1. \E off2, at2, to2 : InOrder(o, s, off2, h, m, at2, to2)'
      BY <2>5, SendDatagramInOrder
    <3> QED BY <3>1
  <2>6. CASE Clear(p)
    <3>1. \E off2 : InOrder(o, s, off2, h, m, at, to)'
      BY <2>6, ClearInOrder
    <3> QED BY <3>1
  <2>7. CASE \E q \in net[p] : ProcessPacket(p, q)
    <3>1. PICK q \in net[p] : ProcessPacket(p, q)
      BY <2>7
    <3>2. \E off2, k, m2 : InOrder(o, s, off2, k, m2, at, to)'
      BY <3>1, ProcessPacketInOrder
    <3> QED BY <3>2
  <2> QED BY <2>1, <2>2, <2>3, <2>4, <2>5, <2>6, <2>7
<1> QED BY <1>1, <1>2

\* Every step preserves the invariant. No step takes a peer out of torn.
LEMMA NextOInv ==
  ASSUME FailMsgs = {}, IInv, DInv, OInv, [Next]_vars
  PROVE  OInv'
<1> SUFFICES ASSUME NEW o \in Peer, NEW s \in Stream, Other(o) \notin torn'
             PROVE  \E off2, k, m2, at2, to2 : InOrder(o, s, off2, k, m2, at2, to2)'
  BY DEF OInv
<1>1. torn \subseteq torn'
  <2>1. CASE UNCHANGED vars
    BY <2>1 DEF vars, historyVars
  <2>2. CASE Next
    <3>1. PICK p \in Peer : \/ SendNetMsg(p) \/ SendFile(p) \/ SetChoked(p) \/ SendDatagram(p)
                            \/ Clear(p) \/ \E q \in net[p] : ProcessPacket(p, q)
      BY <2>2 DEF Next
    <3>2. CASE \E q \in net[p] : ProcessPacket(p, q)
      <4>1. PICK q \in net[p] : ProcessPacket(p, q)
        BY <3>2
      <4>2. Fresh(p, q)
        BY <4>1 DEF ProcessPacket
      <4>3. ValidHeader(p, q)
        BY <4>2, FreshIsValid
      <4>4. PICK taken, lists, outcomes, cleared : PacketEffect(p, q, taken, lists, outcomes, cleared)
        BY <4>1, <4>3, ProcessPacketData
      <4>5. torn' = IF ~taken /\ lists # receiveList[p] THEN torn \cup {p} ELSE torn
        BY <4>4 DEF PacketEffect
      <4> QED BY <4>5
    <3>3. CASE SendDatagram(p)
      BY <3>3 DEF SendDatagram, historyVars
    <3> QED BY <3>1, <3>2, <3>3 DEF SendNetMsg, SendFile, SetChoked, Clear
  <2> QED BY <2>1, <2>2
<1>2. PICK off, h, m, at, to : InOrder(o, s, off, h, m, at, to)
  BY <1>1 DEF OInv
<1> QED BY <1>2, StepInOrder

-----------------------------------------------------------------------------
(* The theorem *)

\* Whatever is lost, repeated or overtaken, and however often a channel is cleared:
\* what the handlers see of a stream is a part of what was put into it, in that order
\* and each message once, but for garbled buffers, at every end that has stored or
\* dropped each packet as a whole, when no handler fails.
THEOREM OrderKept ==
  ASSUME FailMsgs = {}
  PROVE  Spec => []HandledInOrder
<1>1. IInv /\ DInv /\ OInv /\ [Next]_vars => IInv' /\ DInv' /\ OInv'
  BY NextIInv, NextDInv, NextOInv
<1>2. IInv /\ DInv /\ OInv => HandledInOrder
  <2> SUFFICES ASSUME IInv, DInv, OInv, NEW p \in Peer, NEW s \in Stream, Other(p) \notin torn
               PROVE  LET put == Outbox[p][s]
                          seen == delivered[Other(p)][s]
                          handled == {i \in DOMAIN seen : seen[i] # Garbled}
                      IN  /\ \A i \in handled : \E k \in 1 .. sent[p][s] : seen[i] = put[k]
                          /\ \A i, j \in handled : i < j =>
                               \E k, l \in 1 .. sent[p][s] : k < l /\ seen[i] = put[k] /\ seen[j] = put[l]
    BY DEF HandledInOrder
  <2> DEFINE put == Outbox[p][s]
             seen == delivered[Other(p)][s]
             n == sent[p][s]
             handled == Genuine(seen)
  <2>1. PICK off, h, m, at, to : InOrder(p, s, off, h, m, at, to)
    BY DEF OInv
  <2>2. /\ h \in Nat /\ m \in Nat /\ h <= m /\ m <= FrontOf(p, s, off)
        /\ Ascending(seen, put, h)
    BY <2>1 DEF InOrder, Ordered
  <2>3. FrontOf(p, s, off) \in Nat /\ FrontOf(p, s, off) <= n /\ n \in Nat
    BY <2>1, PlacedOfFacts DEF InOrder
  <2>4. PICK f \in [Genuine(seen) -> 1 .. h] :
          /\ \A i \in Genuine(seen) : seen[i] = put[f[i]]
          /\ \A i, j \in Genuine(seen) : i < j => f[i] < f[j]
    BY <2>2 DEF Ascending
  <2>5. handled = {i \in DOMAIN seen : seen[i] # Garbled}
    BY DEF Genuine
  <2> HIDE DEF put, seen, n, handled
  <2>6. \A i \in handled : f[i] \in 1 .. n
    <3>1. \A i \in handled : f[i] \in 1 .. h
      BY <2>4 DEF handled
    <3> QED BY <2>2, <2>3, <3>1
  <2>7. \A i \in handled : \E k \in 1 .. n : seen[i] = put[k]
    BY <2>4, <2>6 DEF handled
  <2>8. \A i, j \in handled : i < j =>
          \E k, l \in 1 .. n : k < l /\ seen[i] = put[k] /\ seen[j] = put[l]
    BY <2>4, <2>6 DEF handled
  <2> QED BY <2>5, <2>7, <2>8 DEF put, seen, n
<1> QED
  BY InitIInv, InitDInv, InitOInv, <1>1, <1>2, PTL DEF Spec

=============================================================================
