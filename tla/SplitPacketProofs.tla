------------------------- MODULE SplitPacketProofs -------------------------
(***************************************************************************)
(* NET_GetLong counts the missing fragments right and delivers whole       *)
(* datagrams, whatever the network does to the fragments and whatever      *)
(* order they are sent in, for any datagrams of up to 127 fragments.       *)
(***************************************************************************)
EXTENDS SplitPacket, TLAPS, FiniteSetTheorems, SequenceTheorems

EntryRecord ==
  [currentSequence : Int, splitCount : Int, totalSize : Nat, expectedSize : Nat,
   splitflags : [Slots -> Int], buffer : [Slots -> (Packet \X Slots) \cup {Nothing}]]

\* A sequence number of the receiver that no packet was sent with is one it set itself.
Known(s) == s \in {-1, 0} \/ Users(s) # {}

EntryOK(e) ==
  /\ e \in EntryRecord
  /\ Known(e.currentSequence)
  /\ \A k \in Slots : Known(e.splitflags[k])

\* The fragments S of packet p have been counted since entry e turned to p.
CountedIn(e, p, S) ==
  /\ \A k \in S : e.buffer[k] = <<p, k>> /\ e.splitflags[k] = sent[p]
  /\ e.splitCount = Count[p] - Cardinality(S)
  /\ S # Numbers(p)
  /\ Count[p] - 1 \in S => e.totalSize = Count[p]

Alone(p) == sent[p] # 0 /\ Users(sent[p]) = {p}

RightIn(e) ==
  \A p \in Packet :
    Alone(p) /\ e.currentSequence = sent[p] => \E S \in SUBSET Numbers(p) : CountedIn(e, p, S)

\* All of p is in the buffer.
AllIn(e, p) ==
  /\ e.totalSize = Count[p]
  /\ \A k \in Numbers(p) : e.buffer[k] = <<p, k>>

-----------------------------------------------------------------------------
(* Constants and fragments *)

\* What the assumptions say of one packet.
LEMMA Sizes ==
  ASSUME NEW p \in Packet
  PROVE  /\ Count[p] \in 1 .. 127
         /\ Count[p] <= MaxSplits
         /\ MaxSplits \in Nat
         /\ SplitSize[p] \in Nat
         /\ Numbers(p) \subseteq Slots
         /\ Direct(p) \in 0 .. Count[p]
<1>1. /\ Count[p] \in 1 .. 127 /\ Count[p] <= MaxSplits /\ MaxSplits \in Nat
      /\ SplitSize[p] \in Nat /\ SplitRate \in Nat
  BY CountAssumption, SizeAssumption, LimitAssumption
<1>2. QED
  BY <1>1 DEF Numbers, Slots, Direct

\* What is packed into packetID comes out of it again.
LEMMA Packing ==
  ASSUME NEW k \in 0 .. 126, NEW c \in 1 .. 127
  PROVE  PacketID(k, c) \in Int /\ PacketID(k, c) \div 256 = k /\ PacketID(k, c) % 256 = c
<1>1. k \in Int /\ c \in Int /\ 0 <= k /\ k <= 126 /\ 1 <= c /\ c <= 127
  OBVIOUS
<1>2. (k * 256 + c) \div 256 = k
  BY <1>1
<1>3. (k * 256 + c) % 256 = c
  BY <1>1
<1>4. ((k * 256 + c) + 32768) % 65536 = k * 256 + c + 32768
  BY <1>1
<1>5. PacketID(k, c) = k * 256 + c
  BY <1>1, <1>4 DEF PacketID, Signed16
<1>6. QED
  BY <1>1, <1>2, <1>3, <1>5

\* The receiver reads out of packetID what the sender put in.
LEMMA Decode ==
  ASSUME NEW p \in Packet, NEW s, NEW k \in Numbers(p)
  PROVE  LET d == Fragment(p, s, k)
         IN  /\ PacketNumber(d) = k
             /\ PacketCount(d) = Count[p]
             /\ d.sequenceNumber = s
             /\ d.splitSize = SplitSize[p]
             /\ d.data = <<p, k>>
             /\ InRange(d)
             /\ IsLast(d) <=> k = Count[p] - 1
<1>1. Count[p] \in 1 .. 127 /\ k \in 0 .. 126 /\ k < Count[p]
  BY Sizes DEF Numbers
<1>2. Fragment(p, s, k).packetID = PacketID(k, Count[p])
  BY DEF Fragment
<1>3. PacketNumber(Fragment(p, s, k)) = k /\ PacketCount(Fragment(p, s, k)) = Count[p]
  <2>1. /\ PacketID(k, Count[p]) \in Int
        /\ PacketID(k, Count[p]) \div 256 = k
        /\ PacketID(k, Count[p]) % 256 = Count[p]
    BY <1>1, Packing
  <2>2. QED
    BY <1>2, <2>1 DEF PacketNumber, PacketCount
<1>4. /\ Fragment(p, s, k).sequenceNumber = s
      /\ Fragment(p, s, k).splitSize = SplitSize[p]
      /\ Fragment(p, s, k).data = <<p, k>>
  BY DEF Fragment
<1>5. QED
  BY <1>1, <1>3, <1>4, Sizes DEF InRange, IsLast

\* How many numbers a packet has.
LEMMA NumbersCounted ==
  ASSUME NEW p \in Packet
  PROVE  /\ IsFiniteSet(Numbers(p))
         /\ Cardinality(Numbers(p)) = Count[p]
         /\ \A S \in SUBSET Numbers(p) :
              /\ IsFiniteSet(S)
              /\ Cardinality(S) \in Nat
              /\ S # Numbers(p) => Cardinality(S) < Count[p]
<1>1. Count[p] \in 1 .. 127
  BY Sizes
<1>2. IsFiniteSet(Numbers(p)) /\ Cardinality(Numbers(p)) = Count[p]
  <2>1. 0 \in Int /\ Count[p] - 1 \in Int /\ 0 <= Count[p] - 1 /\ (Count[p] - 1) - 0 + 1 = Count[p]
    BY <1>1
  <2>2. QED
    BY <2>1, FS_Interval DEF Numbers
<1>3. ASSUME NEW S \in SUBSET Numbers(p)
      PROVE  /\ IsFiniteSet(S)
             /\ Cardinality(S) \in Nat
             /\ S # Numbers(p) => Cardinality(S) < Count[p]
  <2>1. IsFiniteSet(S) /\ Cardinality(S) <= Cardinality(Numbers(p))
        /\ (Cardinality(S) = Cardinality(Numbers(p)) => S = Numbers(p))
    BY <1>2, FS_Subset
  <2>2. Cardinality(S) \in Nat
    BY <2>1, FS_CardinalityType
  <2>3. QED
    BY <1>1, <1>2, <2>1, <2>2
<1>4. QED
  BY <1>2, <1>3

\* TypeOK and CountsMissing in terms of the entry.
LEMMA InvOfEntry ==
  /\ TypeOK => EntryOK(entry)
  /\ CountsMissing <=> RightIn(entry)
<1>1. TypeOK => EntryOK(entry)
  BY DEF TypeOK, EntryOK, EntryRecord, Known
<1>2. CountsMissing <=> RightIn(entry)
  BY DEF CountsMissing, RightIn, CountedIn, Alone
<1>3. QED
  BY <1>1, <1>2

-----------------------------------------------------------------------------
(* Receiving *)

FragmentOf(d, q, k) ==
  q \in Packet /\ k \in Numbers(q) /\ sent[q] # 0 /\ d = Fragment(q, sent[q], k)

\* A fragment that was sent is one of a packet that was sent.
LEMMA SentFragmentsDef ==
  ASSUME NEW d
  PROVE  d \in SentFragments <=> \E q \in Packet : \E k \in Numbers(q) : FragmentOf(d, q, k)
BY DEF SentFragments, FragmentOf

\* Two packets with the number of one that is alone are the same.
LEMMA AloneIsTheOne ==
  ASSUME NEW p \in Packet, NEW q \in Packet, Alone(p), sent[p] = sent[q]
  PROVE  p = q
BY DEF Alone, Users

\* Turning to a new packet, the entry expects all of its fragments.
LEMMA SwitchedOK ==
  ASSUME NEW e, EntryOK(e), RightIn(e), sent \in [Packet -> Nat],
         NEW q \in Packet, NEW k \in Numbers(q), NEW d, FragmentOf(d, q, k)
  PROVE  /\ EntryOK(Switched(e, d))
         /\ RightIn(Switched(e, d))
         /\ Switched(e, d).currentSequence = sent[q]
<1>1. /\ d.sequenceNumber = sent[q] /\ PacketCount(d) = Count[q]
      /\ d.splitSize = SplitSize[q]
  BY Decode DEF FragmentOf
<1>2. CASE e.currentSequence = d.sequenceNumber
  BY <1>1, <1>2 DEF Switched
<1>3. CASE e.currentSequence # d.sequenceNumber
  <2> DEFINE w == Switched(e, d)
  <2>1. w = [e EXCEPT !.currentSequence = sent[q], !.splitCount = Count[q],
                      !.expectedSize = SplitSize[q]]
    BY <1>1, <1>3 DEF Switched
  <2>2. sent[q] \in Int /\ Count[q] \in Int /\ SplitSize[q] \in Nat
    BY Sizes
  <2>3. /\ w \in EntryRecord
        /\ w.currentSequence = sent[q] /\ w.splitCount = Count[q]
        /\ w.splitflags = e.splitflags
    BY <2>1, <2>2 DEF EntryOK, EntryRecord
  <2> HIDE DEF w
  <2>4. Known(sent[q])
    BY DEF Known, Users
  <2>5. EntryOK(w)
    BY <2>3, <2>4 DEF EntryOK
  <2>6. ASSUME NEW p \in Packet, Alone(p), w.currentSequence = sent[p]
        PROVE  CountedIn(w, p, {})
    <3>1. p = q
      BY <2>3, <2>6, AloneIsTheOne
    <3>2. Cardinality({}) = 0
      BY FS_EmptySet
    <3>3. 0 \in Numbers(p)
      BY Sizes DEF Numbers
    <3>4. w.splitCount = Count[p] - Cardinality({})
      BY <2>2, <2>3, <3>1, <3>2
    <3>5. QED
      BY <3>3, <3>4 DEF CountedIn
  <2>7. RightIn(w)
    BY <2>6 DEF RightIn
  <2>8. QED
    BY <2>3, <2>5, <2>7 DEF w
<1>4. QED
  BY <1>2, <1>3

\* What becomes of an entry's fields when fragment k of q is counted and copied.
Taken(e, t, q, k) ==
  /\ t \in EntryRecord
  /\ t.currentSequence = e.currentSequence /\ t.expectedSize = e.expectedSize
  /\ t.buffer[k] = <<q, k>>
  /\ \A j \in Slots : j # k => t.buffer[j] = e.buffer[j] /\ t.splitflags[j] = e.splitflags[j]
  /\ t.splitflags[k] = sent[q]
  /\ e.splitflags[k] = sent[q] =>
       t.splitCount = e.splitCount /\ t.totalSize = e.totalSize
  /\ e.splitflags[k] # sent[q] =>
       /\ t.splitCount = e.splitCount - 1
       /\ t.totalSize = IF k = Count[q] - 1 THEN Count[q] ELSE e.totalSize

\* Counted and Copied change these fields.
LEMMA TakenFields ==
  ASSUME NEW e \in EntryRecord, sent \in [Packet -> Nat],
         NEW q \in Packet, NEW k \in Numbers(q), NEW d, FragmentOf(d, q, k)
  PROVE  Taken(e, Copied(Counted(e, d), d), q, k)
<1>1. /\ d.sequenceNumber = sent[q] /\ PacketCount(d) = Count[q] /\ PacketNumber(d) = k
      /\ d.data = <<q, k>> /\ (IsLast(d) <=> k = Count[q] - 1)
  BY Decode DEF FragmentOf
<1>2. k \in Slots /\ sent[q] \in Int /\ Count[q] \in Nat
  BY Sizes
<1>3. CASE e.splitflags[k] = sent[q]
  <2>1. Copied(Counted(e, d), d) = [e EXCEPT !.buffer[k] = <<q, k>>]
    BY <1>1, <1>3 DEF Copied, Counted
  <2>2. QED
    BY <1>2, <1>3, <2>1 DEF Taken, EntryRecord
<1>4. CASE e.splitflags[k] # sent[q]
  <2> DEFINE total == IF k = Count[q] - 1 THEN Count[q] ELSE e.totalSize
             flags == [e.splitflags EXCEPT ![k] = sent[q]]
             c == [e EXCEPT !.totalSize = total, !.splitCount = e.splitCount - 1,
                            !.splitflags = flags]
  <2>1. Counted(e, d) = c
    BY <1>1, <1>4 DEF Counted, EntryRecord
  <2>1a. total \in Nat /\ e.splitCount - 1 \in Int
    BY <1>2 DEF EntryRecord
  <2>1b. /\ flags \in [Slots -> Int] /\ flags[k] = sent[q]
         /\ \A j \in Slots : j # k => flags[j] = e.splitflags[j]
    BY <1>2 DEF EntryRecord
  <2> HIDE DEF total, flags
  <2>2. /\ c \in EntryRecord
        /\ c.currentSequence = e.currentSequence
        /\ c.expectedSize = e.expectedSize
        /\ c.buffer = e.buffer
        /\ c.splitCount = e.splitCount - 1
        /\ c.totalSize = total
        /\ c.splitflags = flags
    BY <2>1a, <2>1b DEF EntryRecord
  <2> HIDE DEF c
  <2>3. Copied(c, d) = [c EXCEPT !.buffer[k] = <<q, k>>]
    BY <1>1 DEF Copied
  <2>4. QED
    BY <1>2, <1>4, <2>1, <2>1b, <2>2, <2>3 DEF Taken, EntryRecord, total
<1>5. QED
  BY <1>3, <1>4

\* A fragment that has not come before is counted with the others: what is missing
\* is one less, and nothing is when all have come.
LEMMA NewlyCounted ==
  ASSUME NEW e, NEW t, NEW q \in Packet, NEW k \in Numbers(q), Taken(e, t, q, k),
         NEW S \in SUBSET Numbers(q), CountedIn(e, q, S), e.splitflags[k] # sent[q]
  PROVE  \/ t.splitCount > 0 /\ CountedIn(t, q, S \cup {k})
         \/ t.splitCount = 0 /\ AllIn(t, q) /\ S \cup {k} = Numbers(q)
<1>1. /\ Count[q] \in Nat /\ Numbers(q) \subseteq Slots /\ k \in Slots
      /\ IsFiniteSet(S) /\ Cardinality(S) \in Nat /\ Cardinality(S) < Count[q]
  BY Sizes, NumbersCounted DEF CountedIn
<1> DEFINE T == S \cup {k}
<1>2. k \notin S
  BY DEF CountedIn
<1>3. T \in SUBSET Numbers(q)
  OBVIOUS
<1>4. Cardinality(T) = Cardinality(S) + 1
  BY <1>1, <1>2, FS_AddElement
<1>5. t.splitCount = Count[q] - Cardinality(T)
  BY <1>1, <1>4 DEF Taken, CountedIn
<1>6. \A j \in T : t.buffer[j] = <<q, j>> /\ t.splitflags[j] = sent[q]
  BY <1>1 DEF Taken, CountedIn
<1>7. Count[q] - 1 \in T => t.totalSize = Count[q]
  BY DEF Taken, CountedIn
<1>8. Cardinality(T) \in Nat /\ (T # Numbers(q) => Cardinality(T) < Count[q])
      /\ Cardinality(Numbers(q)) = Count[q]
  BY <1>3, NumbersCounted
<1> HIDE DEF T
<1>9. CASE T = Numbers(q)
  <2>1. Count[q] - 1 \in T
    <3>1. Count[q] \in 1 .. 127
      BY Sizes
    <3>2. Count[q] - 1 \in 0 .. Count[q] - 1
      BY <3>1
    <3>3. QED
      BY <1>9, <3>2 DEF Numbers
  <2>2. AllIn(t, q)
    BY <1>6, <1>7, <1>9, <2>1 DEF AllIn
  <2>3. t.splitCount = 0
    BY <1>1, <1>5, <1>8, <1>9
  <2>4. QED
    BY <1>9, <2>2, <2>3 DEF T
<1>10. CASE T # Numbers(q)
  <2>1. CountedIn(t, q, T)
    BY <1>5, <1>6, <1>7, <1>10 DEF CountedIn
  <2>2. t.splitCount > 0
    BY <1>1, <1>5, <1>8, <1>10
  <2>3. QED
    BY <2>1, <2>2 DEF T
<1>11. QED
  BY <1>9, <1>10

\* The fragments counted stay counted, and fragment k is one of them afterwards if it
\* was not before.
LEMMA OneMoreCounted ==
  ASSUME NEW e, NEW t, NEW q \in Packet, NEW k \in Numbers(q), Taken(e, t, q, k),
         NEW S \in SUBSET Numbers(q), CountedIn(e, q, S)
  PROVE  /\ t.splitCount > 0 => \E T \in SUBSET Numbers(q) : CountedIn(t, q, T)
         /\ t.splitCount <= 0 => AllIn(t, q)
<1>1. /\ Count[q] \in Nat /\ Numbers(q) \subseteq Slots /\ k \in Slots
      /\ IsFiniteSet(S) /\ Cardinality(S) \in Nat /\ Cardinality(S) < Count[q]
  BY Sizes, NumbersCounted DEF CountedIn
<1>2. CASE e.splitflags[k] = sent[q]
  <2>1. t.splitCount = Count[q] - Cardinality(S) /\ t.totalSize = e.totalSize
    BY <1>2 DEF Taken, CountedIn
  <2>2. \A j \in S : t.buffer[j] = <<q, j>> /\ t.splitflags[j] = sent[q]
    BY <1>1 DEF Taken, CountedIn
  <2>3. CountedIn(t, q, S)
    BY <2>1, <2>2 DEF CountedIn
  <2>4. QED
    BY <1>1, <2>1, <2>3
<1>3. CASE e.splitflags[k] # sent[q]
  <2>1. S \cup {k} \in SUBSET Numbers(q)
    OBVIOUS
  <2>2. CASE t.splitCount > 0 /\ CountedIn(t, q, S \cup {k})
    <3>1. t.splitCount \in Int
      BY DEF Taken, EntryRecord
    <3>2. ~(t.splitCount <= 0)
      BY <2>2, <3>1
    <3>3. QED
      BY <2>1, <2>2, <3>2
  <2>3. CASE t.splitCount = 0 /\ AllIn(t, q)
    <3>1. ~(t.splitCount > 0)
      BY <2>3
    <3>2. QED
      BY <2>3, <3>1
  <2>4. QED
    BY <1>3, <2>2, <2>3, NewlyCounted
<1>4. QED
  BY <1>2, <1>3

\* The same for whatever packet is alone with the number.
LEMMA TakenOK ==
  ASSUME NEW e, EntryOK(e), RightIn(e), sent \in [Packet -> Nat],
         NEW q \in Packet, NEW k \in Numbers(q), sent[q] # 0,
         e.currentSequence = sent[q],
         NEW t, Taken(e, t, q, k)
  PROVE  /\ EntryOK(t)
         /\ t.splitCount > 0 => RightIn(t)
         /\ t.splitCount <= 0 => (Alone(q) => AllIn(t, q))
<1>1. Known(sent[q])
  BY DEF Known, Users
<1>2. EntryOK(t)
  BY <1>1 DEF Taken, EntryOK
<1>3. Alone(q) => \E S \in SUBSET Numbers(q) : CountedIn(e, q, S)
  BY DEF RightIn
<1>4. Alone(q) => /\ t.splitCount > 0 => \E T \in SUBSET Numbers(q) : CountedIn(t, q, T)
                  /\ t.splitCount <= 0 => AllIn(t, q)
  BY <1>3, OneMoreCounted
<1>5. ASSUME NEW p \in Packet, Alone(p), t.currentSequence = sent[p]
      PROVE  p = q
  BY <1>5, AloneIsTheOne DEF Taken
<1>6. t.splitCount > 0 => RightIn(t)
  BY <1>4, <1>5 DEF RightIn
<1>7. QED
  BY <1>2, <1>4, <1>6

\* What NET_GetLong returns is whole.
LEMMA AllInIsWhole ==
  ASSUME NEW t, NEW q \in Packet, NEW s, AllIn(t, q)
  PROVE  Delivery(t, s).data = Whole(q)
<1>1. 0 .. t.totalSize - 1 = Numbers(q)
  BY DEF AllIn, Numbers
<1>2. QED
  BY <1>1 DEF AllIn, Delivery, Whole

DeliveredOK(D) ==
  \A x \in D :
    /\ x.sequenceNumber # 0 /\ Users(x.sequenceNumber) # {}
    /\ \A p \in Packet : Users(x.sequenceNumber) = {p} => x.data = Whole(p)

\* NET_GetLong keeps the invariant of its entry, and returns whole datagrams.
LEMMA GetLongOK ==
  ASSUME EntryOK(entry), RightIn(entry), DeliveredOK(delivered), sent \in [Packet -> Nat],
         NEW d \in SentFragments, GetLong(d)
  PROVE  EntryOK(entry') /\ RightIn(entry') /\ DeliveredOK(delivered')
<1>1. PICK q \in Packet : \E k \in Numbers(q) : FragmentOf(d, q, k)
  BY SentFragmentsDef
<1>2. PICK k \in Numbers(q) : FragmentOf(d, q, k)
  BY <1>1
<1> DEFINE w == Switched(entry, d)
           t == Copied(Counted(w, d), d)
<1>3. EntryOK(w) /\ RightIn(w) /\ w.currentSequence = sent[q]
  BY <1>2, SwitchedOK
<1>4. InRange(d) /\ d.sequenceNumber = sent[q]
  BY <1>2, Decode DEF FragmentOf
<1>5. \/ entry' = w /\ delivered' = delivered
      \/ /\ t.splitCount <= 0
         /\ entry' = [t EXCEPT !.currentSequence = -1]
         /\ delivered' = delivered \cup {Delivery(t, sent[q])}
      \/ ~(t.splitCount <= 0) /\ entry' = t /\ delivered' = delivered
  BY <1>4 DEF GetLong
<1> HIDE DEF w
<1>6. Taken(w, t, q, k)
  BY <1>2, <1>3, TakenFields DEF EntryOK
<1> HIDE DEF t
<1>7. sent[q] # 0
  BY <1>2 DEF FragmentOf
<1>8. /\ EntryOK(t)
      /\ t.splitCount > 0 => RightIn(t)
      /\ t.splitCount <= 0 => (Alone(q) => AllIn(t, q))
  BY <1>3, <1>6, <1>7, TakenOK
<1>9. CASE entry' = w /\ delivered' = delivered
  BY <1>3, <1>9
<1>10. CASE ~(t.splitCount <= 0) /\ entry' = t /\ delivered' = delivered
  <2>1. t.splitCount > 0
    BY <1>8, <1>10 DEF EntryOK, EntryRecord
  <2>2. QED
    BY <1>8, <1>10, <2>1
<1>11. CASE /\ t.splitCount <= 0
            /\ entry' = [t EXCEPT !.currentSequence = -1]
            /\ delivered' = delivered \cup {Delivery(t, sent[q])}
  <2>1. /\ entry' \in EntryRecord
        /\ entry'.currentSequence = -1
        /\ entry'.splitflags = t.splitflags
    BY <1>8, <1>11 DEF EntryOK, EntryRecord
  <2>2. EntryOK(entry')
    BY <1>8, <2>1 DEF EntryOK, Known
  <2>3. RightIn(entry')
    <3>1. \A p \in Packet : sent[p] # -1
      OBVIOUS
    <3>2. QED
      BY <2>1, <3>1 DEF RightIn
  <2>4. Users(sent[q]) # {}
    BY DEF Users
  <2>5. ASSUME NEW p \in Packet, Users(sent[q]) = {p}
        PROVE  Delivery(t, sent[q]).data = Whole(p)
    <3>1. p = q /\ Alone(q)
      BY <1>7, <2>5 DEF Users, Alone
    <3>2. QED
      BY <1>8, <1>11, <3>1, AllInIsWhole
  <2>6. Delivery(t, sent[q]).sequenceNumber = sent[q]
    BY DEF Delivery
  <2>7. DeliveredOK(delivered')
    BY <1>7, <1>11, <2>4, <2>5, <2>6 DEF DeliveredOK
  <2>8. QED
    BY <2>2, <2>3, <2>7
<1>12. QED
  BY <1>5, <1>9, <1>10, <1>11

-----------------------------------------------------------------------------
(* The steps *)

\* The invariant in parts, with what GetLong keeps set apart.
ShapeOK ==
  /\ sequence \in Nat \ {0}
  /\ sent \in [Packet -> Nat \ {1}]
  /\ queued \subseteq SentFragments
  /\ net \in Seq(SentFragments)
  /\ faults \in 0 .. MaxFaults

Inv == ShapeOK /\ EntryOK(entry) /\ RightIn(entry) /\ DeliveredOK(delivered)

\* The three properties are inductive together.
LEMMA InvIsInductive == Inv <=> TypeOK /\ CountsMissing /\ DeliveredWhole
<1>1. CountsMissing <=> RightIn(entry)
  BY InvOfEntry
<1>2. TypeOK /\ DeliveredWhole <=> ShapeOK /\ EntryOK(entry) /\ DeliveredOK(delivered)
  BY DEF TypeOK, DeliveredWhole, ShapeOK, EntryOK, EntryRecord, Known, DeliveredOK
<1>3. QED
  BY <1>1, <1>2 DEF Inv

\* Nothing is sent: what is known of numbers stays.
LEMMA SentKept ==
  ASSUME sent' = sent
  PROVE  /\ SentFragments' = SentFragments
         /\ EntryOK(entry)' <=> EntryOK(entry')
         /\ RightIn(entry)' <=> RightIn(entry')
         /\ DeliveredOK(delivered)' <=> DeliveredOK(delivered')
<1>1. SentFragments' = SentFragments
  BY DEF SentFragments
<1>2. EntryOK(entry)' <=> EntryOK(entry')
  BY DEF EntryOK, EntryRecord, Known, Users
<1>3. RightIn(entry)' <=> RightIn(entry')
  BY DEF RightIn, Alone, Users, CountedIn
<1>4. DeliveredOK(delivered)' <=> DeliveredOK(delivered')
  BY DEF DeliveredOK, Users
<1>5. QED
  BY <1>1, <1>2, <1>3, <1>4

\* The bound on faults.
LEMMA FaultsBounded ==
  ASSUME faults \in 0 .. MaxFaults, NEW regular, FaultUnless(regular) \/ Fault \/ faults' = faults
  PROVE  faults' \in 0 .. MaxFaults
BY LimitAssumption DEF FaultUnless, Fault

\* Taking a fragment out of the network leaves fragments.
LEMMA RemovedKeepsType ==
  ASSUME NEW F, NEW s \in Seq(F), NEW i \in DOMAIN s
  PROVE  s[i] \in F /\ RemoveAt(s, i) \in Seq(F)
<1>1. i \in 1 .. Len(s) /\ Len(s) \in Nat
  OBVIOUS
<1>2. SubSeq(s, 1, i - 1) \in Seq(F) /\ SubSeq(s, i + 1, Len(s)) \in Seq(F)
  BY <1>1
<1>3. SubSeq(s, 1, i - 1) \o SubSeq(s, i + 1, Len(s)) \in Seq(F)
  BY <1>2
<1>4. QED
  BY <1>1, <1>3 DEF RemoveAt

\* NET_SendLong: the packet's number is one the receiver may know only if another
\* packet was sent with it, which leaves neither alone.
LEMMA SplitInv ==
  ASSUME Inv, NEW p \in Packet, NEW direct \in 0 .. Direct(p), NEW later \in SUBSET Numbers(p),
         Split(p, direct, later), faults' \in 0 .. MaxFaults
  PROVE  Inv'
<1> DEFINE s == sequence + 1
<1>1. /\ sent[p] = 0 /\ sequence' = s /\ s \in Nat /\ s \notin {0, 1, -1}
      /\ sent' = [sent EXCEPT ![p] = s]
      /\ net' = net \o [k \in 1 .. direct |-> Fragment(p, s, k - 1)]
      /\ queued' = queued \cup {Fragment(p, s, k) : k \in later}
      /\ entry' = entry /\ delivered' = delivered
      /\ sent \in [Packet -> Nat \ {1}]
  BY DEF Split, Inv, ShapeOK
<1> HIDE DEF s
<1>2. /\ sent' \in [Packet -> Nat \ {1}]
      /\ sent'[p] = s
      /\ \A q \in Packet : q # p => sent'[q] = sent[q]
  BY <1>1
<1>3. ASSUME NEW d \in SentFragments
      PROVE  d \in SentFragments'
  <2>1. PICK q \in Packet : \E k \in Numbers(q) : FragmentOf(d, q, k)
    BY SentFragmentsDef
  <2>2. q # p /\ sent'[q] = sent[q]
    BY <1>1, <1>2, <2>1 DEF FragmentOf
  <2>3. QED
    BY <2>1, <2>2 DEF FragmentOf, SentFragments
<1>4. \A k \in Numbers(p) : Fragment(p, s, k) \in SentFragments'
  BY <1>1, <1>2 DEF SentFragments
<1>5. queued' \subseteq SentFragments'
  BY <1>1, <1>3, <1>4 DEF Inv, ShapeOK
<1>6. net' \in Seq(SentFragments')
  <2>1. \A k \in 1 .. direct : k - 1 \in Numbers(p)
    BY Sizes DEF Numbers
  <2>2. [k \in 1 .. direct |-> Fragment(p, s, k - 1)] \in Seq(SentFragments')
    <3>1. direct \in Nat
      BY Sizes
    <3>2. \A k \in 1 .. direct : Fragment(p, s, k - 1) \in SentFragments'
      BY <1>4, <2>1
    <3>3. QED
      BY <3>1, <3>2, IsASeq
  <2>3. net \in Seq(SentFragments')
    BY <1>3, SeqMonotonic DEF Inv, ShapeOK
  <2>4. QED
    BY <1>1, <2>2, <2>3, ConcatProperties
<1>7. ASSUME NEW n, n # 0
      PROVE  Users(n) \subseteq Users(n)' /\ \A q \in Users(n)' : q # p => q \in Users(n)
  BY <1>1, <1>2, <1>7 DEF Users
<1>8. ASSUME NEW n, Known(n)
      PROVE  Known(n)'
  BY <1>7, <1>8 DEF Known
<1>9. EntryOK(entry)'
  <2>1. \A n : Known(n) => Known(n)'
    BY <1>8
  <2>2. /\ entry \in EntryRecord /\ Known(entry.currentSequence)
        /\ \A k \in Slots : Known(entry.splitflags[k])
    BY DEF Inv, EntryOK
  <2>3. /\ entry' \in EntryRecord /\ Known(entry.currentSequence)'
        /\ \A k \in Slots : Known(entry.splitflags[k])'
    BY <1>1, <2>1, <2>2 DEF Known, Users
  <2>4. QED
    BY <2>3 DEF EntryOK, EntryRecord
<1>10. RightIn(entry)'
  <2> SUFFICES ASSUME NEW q \in Packet, Alone(q)', entry.currentSequence = sent'[q]
               PROVE  \E S \in SUBSET Numbers(q) : CountedIn(entry, q, S)'
    BY <1>1 DEF RightIn
  <2>1. sent'[q] # 0 /\ {r \in Packet : sent'[r] = sent'[q]} = {q}
    BY DEF Alone, Users
  <2>2. Known(sent'[q])
    BY DEF Inv, EntryOK
  <2>3. sent'[q] # -1
    BY <1>2
  <2>4. PICK r \in Packet : sent[r] = sent'[q]
    BY <2>1, <2>2, <2>3 DEF Known, Users
  <2>4a. r # p
    BY <1>1, <2>1, <2>4
  <2>4b. r = q
    BY <1>2, <2>1, <2>4, <2>4a
  <2>5. Users(sent'[q]) = {q}
    <3>1. \A u \in Packet : sent[u] = sent'[q] => u # p /\ sent'[u] = sent'[q]
      BY <1>1, <1>2, <2>1
    <3>2. QED
      BY <2>1, <2>4, <2>4b, <3>1 DEF Users
  <2>6. sent'[q] = sent[q]
    BY <2>5 DEF Users
  <2>7. Alone(q) /\ entry.currentSequence = sent[q]
    BY <2>1, <2>5, <2>6 DEF Alone
  <2>8. PICK S \in SUBSET Numbers(q) : CountedIn(entry, q, S)
    BY <2>7 DEF Inv, RightIn
  <2>9. CountedIn(entry, q, S)'
    BY <1>1, <2>6, <2>8 DEF CountedIn
  <2>10. QED
    BY <2>9
<1>11. DeliveredOK(delivered)'
  <2> SUFFICES ASSUME NEW x \in delivered
               PROVE  /\ x.sequenceNumber # 0 /\ Users(x.sequenceNumber)' # {}
                      /\ \A q \in Packet : Users(x.sequenceNumber)' = {q} => x.data = Whole(q)
    BY <1>1 DEF DeliveredOK, Users
  <2>1. x.sequenceNumber # 0 /\ Users(x.sequenceNumber) # {}
        /\ \A q \in Packet : Users(x.sequenceNumber) = {q} => x.data = Whole(q)
    BY DEF Inv, DeliveredOK
  <2>2. Users(x.sequenceNumber) \subseteq Users(x.sequenceNumber)'
    BY <1>7, <2>1
  <2>3. QED
    BY <2>1, <2>2
<1>12. QED
  BY <1>1, <1>2, <1>5, <1>6, <1>9, <1>10, <1>11 DEF Inv, ShapeOK

\* A step that sends nothing and leaves the receiver alone.
LEMMA UnsentInv ==
  ASSUME Inv, UNCHANGED <<sent, entry, delivered>>, faults' \in 0 .. MaxFaults,
         sequence' \in Nat \ {0}, queued' \subseteq SentFragments, net' \in Seq(SentFragments)
  PROVE  Inv'
BY SentKept DEF Inv, ShapeOK

\* Receive.
LEMMA ReceiveInv ==
  ASSUME Inv, NEW i \in DOMAIN net, Receive(i)
  PROVE  Inv'
<1>1. /\ sent' = sent /\ sequence' = sequence /\ queued' = queued /\ GetLong(net[i])
      /\ net' = net \/ net' = RemoveAt(net, i)
      /\ FaultUnless(i = 1) \/ Fault
  BY DEF Receive
<1>2. net[i] \in SentFragments /\ net' \in Seq(SentFragments)
  BY <1>1, RemovedKeepsType DEF Inv, ShapeOK
<1>3. sent \in [Packet -> Nat]
  BY DEF Inv, ShapeOK
<1>4. EntryOK(entry') /\ RightIn(entry') /\ DeliveredOK(delivered')
  BY <1>1, <1>2, <1>3, GetLongOK DEF Inv
<1>5. faults' \in 0 .. MaxFaults
  BY <1>1, FaultsBounded DEF Inv, ShapeOK
<1>6. QED
  BY <1>1, <1>2, <1>4, <1>5, SentKept DEF Inv, ShapeOK

\* The entry NET_DiscardStaleSplitpackets leaves knows no number.
LEMMA FreshOK ==
  ASSUME sent \in [Packet -> Nat]
  PROVE  EntryOK(FreshEntry) /\ RightIn(FreshEntry)
<1>1. MaxSplits \in Nat
  BY LimitAssumption
<1>2. FreshEntry \in EntryRecord
  BY <1>1 DEF FreshEntry, EntryRecord, Slots
<1>3. FreshEntry.currentSequence = 0 /\ \A k \in Slots : FreshEntry.splitflags[k] = -1
  BY DEF FreshEntry, Slots
<1>4. QED
  BY <1>2, <1>3 DEF EntryOK, RightIn, Alone, Known

\* The initial state.
LEMMA InitInv == Init => Inv
<1> SUFFICES ASSUME Init PROVE Inv
  OBVIOUS
<1>1. sent \in [Packet -> Nat \ {1}] /\ sequence = 1 /\ faults \in 0 .. MaxFaults
  BY LimitAssumption DEF Init, InitialSequence
<1>2. EntryOK(entry) /\ RightIn(entry)
  BY <1>1, FreshOK DEF Init
<1>3. QED
  BY <1>1, <1>2 DEF Init, Inv, ShapeOK, DeliveredOK

\* Every step keeps the invariant.
LEMMA NextInv == Inv /\ [Next]_vars => Inv'
<1> SUFFICES ASSUME Inv, [Next]_vars PROVE Inv'
  OBVIOUS
<1>1. ASSUME NEW p \in Packet, SendLong(p) PROVE Inv'
  <2>1. /\ Split(p, Direct(p), Direct(p) .. Count[p] - 1)
        /\ FaultUnless(CanPacket)
    BY <1>1 DEF SendLong
  <2>2. Direct(p) \in 0 .. Direct(p) /\ Direct(p) .. Count[p] - 1 \in SUBSET Numbers(p)
    BY Sizes DEF Numbers
  <2>3. faults' \in 0 .. MaxFaults
    BY <2>1, FaultsBounded DEF Inv, ShapeOK
  <2>4. QED
    BY <2>1, <2>2, <2>3, SplitInv
<1>2. ASSUME NEW p \in Packet, SendFails(p) PROVE Inv'
  <2>1. PICK direct \in 0 .. Direct(p) - 1 : Split(p, direct, {})
    BY <1>2 DEF SendFails
  <2>2. direct \in 0 .. Direct(p)
    BY Sizes
  <2>3. faults' \in 0 .. MaxFaults
    BY <1>2, FaultsBounded DEF SendFails, Inv, ShapeOK
  <2>4. QED
    BY <2>1, <2>2, <2>3, SplitInv
<1>3. ASSUME NEW d \in queued, SendQueued(d) PROVE Inv'
  <2>1. net' \in Seq(SentFragments)
    BY <1>3, AppendProperties DEF SendQueued, Inv, ShapeOK
  <2>2. QED
    BY <1>3, <2>1, UnsentInv DEF SendQueued, Inv, ShapeOK
<1>4. ASSUME NEW i \in DOMAIN net, Receive(i) PROVE Inv'
  BY <1>4, ReceiveInv
<1>5. ASSUME NEW i \in DOMAIN net, Lose(i) PROVE Inv'
  <2>1. net' \in Seq(SentFragments)
    BY <1>5, RemovedKeepsType DEF Lose, Inv, ShapeOK
  <2>2. faults' \in 0 .. MaxFaults
    BY <1>5, FaultsBounded DEF Lose, Inv, ShapeOK
  <2>3. QED
    BY <1>5, <2>1, <2>2, UnsentInv DEF Lose, Inv, ShapeOK
<1>6. CASE Reset
  <2>1. faults' \in 0 .. MaxFaults
    BY <1>6, FaultsBounded DEF Reset, Inv, ShapeOK
  <2>2. QED
    BY <1>6, <2>1, UnsentInv DEF Reset, InitialSequence, Inv, ShapeOK
<1>7. CASE DiscardStale
  <2>1. faults' \in 0 .. MaxFaults
    BY <1>7, FaultsBounded DEF DiscardStale, Inv, ShapeOK
  <2>2. EntryOK(entry') /\ RightIn(entry')
    BY <1>7, FreshOK DEF DiscardStale, Inv, ShapeOK
  <2>3. QED
    BY <1>7, <2>1, <2>2, SentKept DEF DiscardStale, Inv, ShapeOK
<1>8. CASE UNCHANGED vars
  BY <1>8, UnsentInv DEF vars, Inv, ShapeOK
<1>9. QED
  BY <1>1, <1>2, <1>3, <1>4, <1>5, <1>6, <1>7, <1>8 DEF Next

-----------------------------------------------------------------------------
(* Without faults *)

\* The numbers of packet p's fragments that are in F, under way, and that have come.
Ahead(p, F) == {k \in Numbers(p) : Fragment(p, sent[p], k) \in F}
Come(p, F) == Numbers(p) \ Ahead(p, F)

\* A packet that was sent has been delivered, or is the one being put together, or
\* has still to begin.
Progress(p, e, D, F) ==
  \/ Ahead(p, F) = {} /\ \E x \in D : x.data = Whole(p)
  \/ /\ Come(p, F) # {} /\ e.currentSequence = sent[p] /\ e.expectedSize = SplitSize[p]
     /\ CountedIn(e, p, Come(p, F))
  \/ Come(p, F) = {} /\ e.currentSequence # sent[p]

\* Fragments that have still to come will count, and once one of p has come nothing
\* of earlier packets follows.
PacketOK(p, e, D, F) ==
  /\ Progress(p, e, D, F)
  /\ \A k \in Ahead(p, F) : e.splitflags[k] # sent[p]
  /\ Come(p, F) # {} => \A d \in F : d.sequenceNumber >= sent[p]

PacketsOK(e, D, F) == \A p \in Packet : sent[p] # 0 => PacketOK(p, e, D, F)

\* Packets have numbers of their own, what is queued is of the last one, and
\* fragments are under way once and in the order of the packets.
LineUp ==
  /\ \A p, q \in Packet : sent[p] # 0 /\ sent[p] = sent[q] => p = q
  /\ \A p \in Packet : sent[p] <= sequence
  /\ \A d \in queued : d.sequenceNumber = sequence
  /\ \A i, j \in DOMAIN net :
       i < j => net[i] # net[j] /\ net[i].sequenceNumber <= net[j].sequenceNumber
  /\ \A i \in DOMAIN net : net[i] \notin queued

Regular == faults = 0 => LineUp /\ PacketsOK(entry, delivered, InFlight)

\* Fragments with the same packet, number and sequence number are the same.
LEMMA SameFragment ==
  ASSUME NEW p, NEW q, NEW j, NEW k, NEW s, NEW r, Fragment(p, s, j) = Fragment(q, r, k)
  PROVE  p = q /\ j = k /\ s = r
<1>1. <<p, j>> = <<q, k>> /\ s = r
  BY DEF Fragment
<1>2. QED
  BY <1>1

\* The first fragment of all arrives: it is of the packet that is being put together
\* or begins another one when there is none.
LEMMA GetLongRegular ==
  ASSUME EntryOK(entry), sent \in [Packet -> Nat],
         NEW F, NEW q \in Packet, NEW k \in Numbers(q), NEW d \in F, FragmentOf(d, q, k),
         GetLong(d), PacketsOK(entry, delivered, F),
         \A p \in Packet : sent[p] = sent[q] => p = q,
         \A f \in F : f.sequenceNumber >= sent[q]
  PROVE  PacketsOK(entry', delivered', F \ {d})
<1> DEFINE G == F \ {d}
<1>1. /\ d.sequenceNumber = sent[q] /\ PacketCount(d) = Count[q]
      /\ d.splitSize = SplitSize[q] /\ InRange(d) /\ d = Fragment(q, sent[q], k)
      /\ sent[q] # 0
  BY Decode DEF FragmentOf
<1>2. /\ k \in Ahead(q, F) /\ Ahead(q, G) = Ahead(q, F) \ {k}
      /\ Come(q, G) = Come(q, F) \cup {k}
      /\ Come(q, F) \in SUBSET Numbers(q)
  BY <1>1, SameFragment DEF Ahead, Come
<1>3. ASSUME NEW p \in Packet, p # q
      PROVE  Ahead(p, G) = Ahead(p, F) /\ Come(p, G) = Come(p, F)
  BY <1>1, <1>3, SameFragment DEF Ahead, Come
<1>4. /\ PacketOK(q, entry, delivered, F)
      /\ entry.splitflags[k] # sent[q]
  BY <1>1, <1>2 DEF PacketsOK, PacketOK
<1> HIDE DEF G
<1> DEFINE w == Switched(entry, d)
           t == Copied(Counted(w, d), d)
<1>5. /\ w \in EntryRecord /\ w.currentSequence = sent[q] /\ w.expectedSize = SplitSize[q]
      /\ w.splitflags = entry.splitflags /\ CountedIn(w, q, Come(q, F))
  <2>1. CASE /\ entry.currentSequence = sent[q] /\ entry.expectedSize = SplitSize[q]
             /\ CountedIn(entry, q, Come(q, F))
    <3>1. w = entry
      BY <1>1, <2>1 DEF Switched
    <3>2. QED
      BY <2>1, <3>1 DEF EntryOK
  <2>2. CASE Come(q, F) = {} /\ entry.currentSequence # sent[q]
    <3>1. w = [entry EXCEPT !.currentSequence = sent[q], !.splitCount = Count[q],
                            !.expectedSize = SplitSize[q]]
      BY <1>1, <2>2 DEF Switched
    <3>2. sent[q] \in Int /\ Count[q] \in Int /\ SplitSize[q] \in Nat
      BY Sizes
    <3>3. /\ w \in EntryRecord
          /\ w.currentSequence = sent[q] /\ w.splitCount = Count[q]
          /\ w.expectedSize = SplitSize[q] /\ w.splitflags = entry.splitflags
      BY <3>1, <3>2 DEF EntryOK, EntryRecord
    <3> HIDE DEF w
    <3>4. Cardinality({}) = 0
      BY FS_EmptySet
    <3>5. w.splitCount = Count[q] - Cardinality({})
      BY <3>2, <3>3, <3>4
    <3>6. CountedIn(w, q, {})
      BY <3>5 DEF CountedIn
    <3>7. QED
      BY <2>2, <3>3, <3>6
  <2>3. QED
    BY <1>2, <1>4, <2>1, <2>2 DEF PacketOK, Progress
<1>6. Taken(w, t, q, k)
  BY <1>5, TakenFields
<1>7. \/ ~(t.splitCount <= 0) /\ entry' = t /\ delivered' = delivered
      \/ /\ t.splitCount <= 0
         /\ entry' = [t EXCEPT !.currentSequence = -1]
         /\ delivered' = delivered \cup {Delivery(t, sent[q])}
  BY <1>1, <1>5 DEF GetLong
<1> HIDE DEF w, t
<1>8. \/ t.splitCount > 0 /\ CountedIn(t, q, Come(q, G))
      \/ t.splitCount = 0 /\ AllIn(t, q) /\ Come(q, G) = Numbers(q)
  BY <1>2, <1>4, <1>5, <1>6, NewlyCounted
<1>9. /\ entry' \in EntryRecord /\ entry'.splitflags = t.splitflags
      /\ entry'.currentSequence \in {-1, sent[q]}
      /\ delivered \subseteq delivered'
  BY <1>5, <1>6, <1>7 DEF Taken, EntryRecord
<1>10. t.splitCount \in Int /\ k \in Slots
  BY <1>6, Sizes DEF Taken, EntryRecord
<1>11. Progress(q, entry', delivered', G)
  <2>1. CASE t.splitCount > 0 /\ CountedIn(t, q, Come(q, G))
    <3>1. entry' = t
      BY <1>7, <1>10, <2>1
    <3>2. t.currentSequence = sent[q] /\ t.expectedSize = SplitSize[q]
      BY <1>5, <1>6 DEF Taken
    <3>3. QED
      BY <1>2, <2>1, <3>1, <3>2 DEF Progress
  <2>2. CASE t.splitCount = 0 /\ AllIn(t, q) /\ Come(q, G) = Numbers(q)
    <3>1. Delivery(t, sent[q]) \in delivered'
      BY <1>7, <2>2
    <3>2. Delivery(t, sent[q]).data = Whole(q)
      BY <2>2, AllInIsWhole
    <3>3. Ahead(q, G) = {}
      BY <2>2 DEF Come, Ahead
    <3>4. QED
      BY <3>1, <3>2, <3>3 DEF Progress
  <2>3. QED
    BY <1>8, <2>1, <2>2
<1>12. PacketOK(q, entry', delivered', G)
  <2>1. ASSUME NEW j \in Ahead(q, G)
        PROVE  entry'.splitflags[j] # sent[q]
    <3>1. j \in Slots /\ j # k /\ j \in Ahead(q, F)
      BY <1>2, Sizes DEF Ahead
    <3>2. t.splitflags[j] = entry.splitflags[j]
      BY <1>5, <1>6, <3>1 DEF Taken
    <3>3. QED
      BY <1>4, <1>9, <3>1, <3>2 DEF PacketOK
  <2>2. QED
    BY <1>11, <2>1 DEF PacketOK, G
<1>13. ASSUME NEW p \in Packet, p # q, sent[p] # 0
       PROVE  PacketOK(p, entry', delivered', G)
  <2>1. PacketOK(p, entry, delivered, F) /\ sent[p] # sent[q]
    BY <1>13 DEF PacketsOK
  <2>2. ~(Come(p, F) # {} /\ CountedIn(entry, p, Come(p, F)))
    <3> SUFFICES ASSUME Come(p, F) # {}, CountedIn(entry, p, Come(p, F))
                 PROVE  FALSE
      OBVIOUS
    <3>1. sent[q] >= sent[p]
      BY <1>1, <2>1 DEF PacketOK
    <3>2. PICK j : j \in Ahead(p, F)
      BY DEF CountedIn, Come
    <3>3. Fragment(p, sent[p], j) \in F /\ Fragment(p, sent[p], j).sequenceNumber = sent[p]
      BY <3>2 DEF Ahead, Fragment
    <3>4. sent[p] >= sent[q]
      BY <3>3
    <3>5. QED
      BY <2>1, <3>1, <3>4
  <2>3. Progress(p, entry', delivered', G)
    <3>1. CASE Ahead(p, F) = {} /\ \E x \in delivered : x.data = Whole(p)
      BY <1>3, <1>9, <1>13, <3>1 DEF Progress
    <3>2. CASE Come(p, F) = {} /\ entry.currentSequence # sent[p]
      <4>1. entry'.currentSequence # sent[p]
        <5>1. sent[p] # -1
          OBVIOUS
        <5>2. QED
          BY <1>9, <2>1, <5>1
      <4>2. QED
        BY <1>3, <1>13, <3>2, <4>1 DEF Progress
    <3>3. QED
      BY <2>1, <2>2, <3>1, <3>2 DEF PacketOK, Progress
  <2>4. ASSUME NEW j \in Ahead(p, G)
        PROVE  entry'.splitflags[j] # sent[p]
    <3>1. j \in Ahead(p, F) /\ j \in Slots
      BY <1>3, <1>13, Sizes DEF Ahead
    <3>2. entry.splitflags[j] # sent[p]
      BY <2>1, <3>1 DEF PacketOK
    <3>3. CASE j = k
      BY <1>6, <1>9, <2>1, <3>3 DEF Taken
    <3>4. CASE j # k
      BY <1>5, <1>6, <1>9, <3>1, <3>2, <3>4 DEF Taken
    <3>5. QED
      BY <3>3, <3>4
  <2>5. Come(p, G) # {} => \A f \in G : f.sequenceNumber >= sent[p]
    BY <1>3, <1>13, <2>1 DEF PacketOK, G
  <2>6. QED
    BY <2>3, <2>4, <2>5 DEF PacketOK
<1>14. QED
  BY <1>12, <1>13 DEF PacketsOK, G

\* Taking the first fragment out of the network shifts the others.
LEMMA RemovedFirst ==
  ASSUME NEW F, NEW s \in Seq(F), 1 \in DOMAIN s
  PROVE  /\ RemoveAt(s, 1) \in Seq(F)
         /\ Len(RemoveAt(s, 1)) = Len(s) - 1
         /\ \A i \in 1 .. Len(s) - 1 : RemoveAt(s, 1)[i] = s[i + 1]
<1>1. Len(s) \in Nat /\ Len(s) >= 1
  OBVIOUS
<1> DEFINE a == SubSeq(s, 1, 0)
           b == SubSeq(s, 2, Len(s))
<1>2. a \in Seq(F) /\ Len(a) = 0
  BY <1>1
<1>3. b \in Seq(F) /\ Len(b) = Len(s) - 1 /\ \A i \in 1 .. Len(s) - 1 : b[i] = s[i + 1]
  <2>1. s # <<>>
    BY <1>1
  <2>2. Tail(s) = b
    BY <2>1, TailIsSubSeq
  <2>3. /\ Tail(s) \in Seq(F) /\ Len(Tail(s)) = Len(s) - 1
        /\ \A i \in 1 .. Len(Tail(s)) : Tail(s)[i] = s[i + 1]
    BY <2>1, HeadTailProperties
  <2> HIDE DEF b
  <2>4. QED
    BY <2>2, <2>3
<1>4. RemoveAt(s, 1) = a \o b
  BY DEF RemoveAt
<1> HIDE DEF a, b
<1>5. QED
  BY <1>1, <1>2, <1>3, <1>4

\* Receive in a network that behaves.
LEMMA ReceiveRegular ==
  ASSUME Inv, LineUp, PacketsOK(entry, delivered, InFlight),
         1 \in DOMAIN net, net' = RemoveAt(net, 1), GetLong(net[1]),
         UNCHANGED <<sequence, queued, sent>>
  PROVE  LineUp' /\ PacketsOK(entry, delivered, InFlight)'
<1> DEFINE d == net[1]
<1>1. /\ net \in Seq(SentFragments) /\ queued \subseteq SentFragments
      /\ sent \in [Packet -> Nat] /\ sequence \in Nat /\ EntryOK(entry)
  BY DEF Inv, ShapeOK
<1>2. /\ Len(net) \in Nat /\ DOMAIN net = 1 .. Len(net) /\ Len(net) >= 1
      /\ net' \in Seq(SentFragments) /\ Len(net') = Len(net) - 1
      /\ \A i \in 1 .. Len(net) - 1 : net'[i] = net[i + 1]
  BY <1>1, RemovedFirst
<1>3. DOMAIN net' = 1 .. Len(net) - 1
  BY <1>2
<1>4. d \in SentFragments /\ d \in InFlight
  BY <1>1, <1>2 DEF InFlight
<1>5. InFlight' = InFlight \ {d}
  <2>1. {net'[i] : i \in DOMAIN net'} = {net[i] : i \in DOMAIN net} \ {d}
    <3>1. ASSUME NEW i \in DOMAIN net'
          PROVE  net'[i] \in {net[j] : j \in DOMAIN net} \ {d}
      <4>1. /\ i + 1 \in DOMAIN net /\ 1 < i + 1 /\ net'[i] = net[i + 1]
            /\ 1 \in DOMAIN net
        BY <1>2, <1>3
      <4>2. net[i + 1] # net[1]
        BY <4>1 DEF LineUp
      <4>3. QED
        BY <4>1, <4>2
    <3>2. ASSUME NEW j \in DOMAIN net, net[j] # d
          PROVE  \E i \in DOMAIN net' : net'[i] = net[j]
      <4>1. j - 1 \in DOMAIN net' /\ net'[j - 1] = net[(j - 1) + 1] /\ (j - 1) + 1 = j
        BY <1>2, <1>3, <3>2
      <4>2. QED
        BY <4>1
    <3>3. QED
      BY <3>1, <3>2
  <2>2. d \notin queued
    BY DEF LineUp
  <2>3. QED
    BY <2>1, <2>2 DEF InFlight
<1>6. LineUp'
  <2>1. ASSUME NEW i \in DOMAIN net', NEW j \in DOMAIN net', i < j
        PROVE  net'[i] # net'[j] /\ net'[i].sequenceNumber <= net'[j].sequenceNumber
    <3>1. /\ i + 1 \in DOMAIN net /\ j + 1 \in DOMAIN net /\ i + 1 < j + 1
          /\ net'[i] = net[i + 1] /\ net'[j] = net[j + 1]
      BY <1>2, <1>3, <2>1
    <3>2. net[i + 1] # net[j + 1] /\ net[i + 1].sequenceNumber <= net[j + 1].sequenceNumber
      BY <3>1 DEF LineUp
    <3>3. QED
      BY <3>1, <3>2
  <2>2. ASSUME NEW i \in DOMAIN net'
        PROVE  net'[i] \notin queued'
    <3>1. i + 1 \in DOMAIN net /\ net'[i] = net[i + 1]
      BY <1>2, <1>3
    <3>2. QED
      BY <3>1 DEF LineUp
  <2>3. QED
    BY <2>1, <2>2 DEF LineUp
<1>7. PICK q \in Packet : \E k \in Numbers(q) : FragmentOf(d, q, k)
  BY <1>4, SentFragmentsDef
<1>8. PICK k \in Numbers(q) : FragmentOf(d, q, k)
  BY <1>7
<1>9. d.sequenceNumber = sent[q] /\ sent[q] # 0
  BY <1>8, Decode DEF FragmentOf
<1>10. \A f \in InFlight : f.sequenceNumber >= sent[q]
  <2>1. ASSUME NEW f \in queued PROVE f.sequenceNumber >= sent[q]
    <3>1. f.sequenceNumber = sequence /\ sent[q] <= sequence
      BY DEF LineUp
    <3>2. QED
      BY <1>1, <3>1
  <2>2. ASSUME NEW j \in DOMAIN net PROVE net[j].sequenceNumber >= sent[q]
    <3>1. CASE j = 1
      BY <1>1, <1>9, <3>1
    <3>2. CASE j # 1
      <4>1. 1 < j
        BY <1>2, <3>2
      <4>2. net[1].sequenceNumber <= net[j].sequenceNumber
        BY <4>1 DEF LineUp
      <4>3. net[j] \in SentFragments
        BY <1>1
      <4>4. PICK r \in Packet : net[j].sequenceNumber = sent[r]
        BY <4>3, SentFragmentsDef DEF FragmentOf, Fragment
      <4>5. QED
        BY <1>1, <1>9, <4>2, <4>4
    <3>3. QED
      BY <3>1, <3>2
  <2>3. QED
    BY <2>1, <2>2 DEF InFlight
<1>11. PacketsOK(entry', delivered', InFlight \ {d})
  <2>1. \A p \in Packet : sent[p] = sent[q] => p = q
    BY <1>9 DEF LineUp
  <2> HIDE DEF d
  <2>2. GetLong(d)
    BY DEF d
  <2>3. QED
    BY <1>1, <1>4, <1>8, <1>10, <2>1, <2>2, GetLongRegular
<1>12. QED
  BY <1>5, <1>6, <1>11
     DEF PacketsOK, PacketOK, Progress, Ahead, Come, CountedIn

\* The numbers of a packet are those sent at once and those queued.
LEMMA Parted ==
  ASSUME NEW c \in 1 .. 127, NEW n \in Nat, n <= c
  PROVE  /\ 0 .. c - 1 = (0 .. n - 1) \cup (n .. c - 1)
         /\ 0 \in 0 .. c - 1
         /\ \A k \in 1 .. n : k - 1 \in 0 .. c - 1
OBVIOUS

\* NET_SendLong with nothing queued.
LEMMA SplitRegular ==
  ASSUME Inv, LineUp, PacketsOK(entry, delivered, InFlight), queued = {},
         NEW p \in Packet, Split(p, Direct(p), Direct(p) .. Count[p] - 1)
  PROVE  LineUp' /\ PacketsOK(entry, delivered, InFlight)'
<1> DEFINE s == sequence + 1
           n == Direct(p)
           new == [k \in 1 .. n |-> Fragment(p, s, k - 1)]
           N == {Fragment(p, s, k) : k \in Numbers(p)}
<1>1. /\ sent[p] = 0 /\ sequence' = s /\ s \in Nat /\ s > sequence /\ sequence \in Nat /\ s > 1
      /\ sent' = [sent EXCEPT ![p] = s]
      /\ net' = net \o new
      /\ queued' = {Fragment(p, s, k) : k \in n .. Count[p] - 1}
      /\ entry' = entry /\ delivered' = delivered
      /\ sent \in [Packet -> Nat \ {1}] /\ net \in Seq(SentFragments)
  BY DEF Split, Inv, ShapeOK
<1>2. n \in Nat /\ n <= Count[p] /\ Count[p] \in 1 .. 127
  BY Sizes
<1> HIDE DEF n
<1>3. /\ new \in Seq(N) /\ Len(new) = n
      /\ \A k \in 1 .. n : k - 1 \in Numbers(p) /\ new[k] = Fragment(p, s, k - 1)
  <2>1. \A k \in 1 .. n : k - 1 \in Numbers(p)
    <3>1. \A k \in 1 .. n : k - 1 \in 0 .. Count[p] - 1
      BY <1>2, Parted
    <3>2. QED
      BY <3>1 DEF Numbers
  <2>2. \A k \in 1 .. n : Fragment(p, s, k - 1) \in N
    BY <2>1
  <2> HIDE DEF N
  <2>3. QED
    BY <1>2, <2>1, <2>2, IsASeq
<1> HIDE DEF s, n, new
<1>4. /\ sent' \in [Packet -> Nat \ {1}] /\ sent'[p] = s
      /\ \A q \in Packet : q # p => sent'[q] = sent[q]
  BY <1>1
<1>5. /\ DOMAIN net = 1 .. Len(net) /\ Len(net) \in Nat
      /\ DOMAIN net' = 1 .. Len(net) + n
      /\ \A i \in 1 .. Len(net) : net'[i] = net[i]
      /\ \A i \in DOMAIN net' : i > Len(net) =>
            i - Len(net) \in 1 .. n /\ net'[i] = new[i - Len(net)]
  <2>1. Len(net) \in Nat /\ net' = net \o new
    BY <1>1
  <2>2. net \in Seq(SentFragments \cup N) /\ new \in Seq(SentFragments \cup N)
    BY <1>1, <1>3, SeqMonotonic
  <2>3. Len(net') = Len(net) + n
    BY <1>3, <2>1, <2>2, ConcatProperties
  <2>4. DOMAIN net' = 1 .. Len(net')
    BY <2>1, <2>2, ConcatProperties
  <2>5. \A i \in 1 .. Len(net) + n :
          net'[i] = IF i <= Len(net) THEN net[i] ELSE new[i - Len(net)]
    BY <1>3, <2>1, <2>2, ConcatProperties
  <2>6. QED
    BY <1>1, <1>2, <2>1, <2>3, <2>4, <2>5
<1>6. ASSUME NEW d \in SentFragments
      PROVE  \E q \in Packet : q # p /\ d.sequenceNumber = sent[q]
  BY <1>1, SentFragmentsDef DEF FragmentOf, Fragment
<1>7. ASSUME NEW d \in SentFragments
      PROVE  d.sequenceNumber \in Nat /\ d.sequenceNumber <= sequence /\ d.sequenceNumber < s
  BY <1>1, <1>6 DEF LineUp
<1>8. \A k : Fragment(p, s, k).sequenceNumber = s
  BY DEF Fragment
<1>9. InFlight' = InFlight \cup N
  <2>1. {net'[i] : i \in DOMAIN net'} =
          {net[i] : i \in DOMAIN net} \cup {Fragment(p, s, k) : k \in 0 .. n - 1}
    <3>1. ASSUME NEW i \in DOMAIN net'
          PROVE  net'[i] \in {net[j] : j \in DOMAIN net}
                             \cup {Fragment(p, s, k) : k \in 0 .. n - 1}
      <4>1. CASE i <= Len(net)
        <5>1. i \in DOMAIN net /\ net'[i] = net[i]
          BY <1>2, <1>5, <4>1
        <5>2. QED
          BY <5>1
      <4>2. CASE i > Len(net)
        <5>1. i - Len(net) \in 1 .. n /\ net'[i] = Fragment(p, s, (i - Len(net)) - 1)
          BY <1>3, <1>5, <4>2
        <5>2. (i - Len(net)) - 1 \in 0 .. n - 1
          BY <1>2, <5>1
        <5>3. QED
          BY <5>1, <5>2
      <4>3. QED
        BY <1>2, <1>5, <4>1, <4>2
    <3>2. ASSUME NEW j \in DOMAIN net
          PROVE  net[j] \in {net'[i] : i \in DOMAIN net'}
      <4>1. j \in DOMAIN net' /\ net'[j] = net[j]
        BY <1>2, <1>5
      <4>2. QED
        BY <4>1
    <3>3. ASSUME NEW k \in 0 .. n - 1
          PROVE  Fragment(p, s, k) \in {net'[i] : i \in DOMAIN net'}
      <4> DEFINE i == Len(net) + k + 1
      <4>1. /\ i \in DOMAIN net' /\ i > Len(net) /\ i - Len(net) = k + 1
            /\ k + 1 \in 1 .. n /\ (k + 1) - 1 = k
        BY <1>2, <1>5
      <4> HIDE DEF i
      <4>2. net'[i] = Fragment(p, s, k)
        BY <1>3, <1>5, <4>1
      <4>3. QED
        BY <4>1, <4>2
    <3>4. QED
      BY <3>1, <3>2, <3>3
  <2>2. N = {Fragment(p, s, k) : k \in 0 .. n - 1} \cup {Fragment(p, s, k) : k \in n .. Count[p] - 1}
    <3>1. Numbers(p) = (0 .. n - 1) \cup (n .. Count[p] - 1)
      <4>1. 0 .. Count[p] - 1 = (0 .. n - 1) \cup (n .. Count[p] - 1)
        BY <1>2, Parted
      <4>2. QED
        BY <4>1 DEF Numbers
    <3>2. QED
      BY <3>1
  <2>3. QED
    BY <1>1, <2>1, <2>2 DEF InFlight
<1>10. InFlight \subseteq SentFragments
  BY <1>1 DEF InFlight
<1>11. LineUp'
  <2>1. \A q, r \in Packet : sent'[q] # 0 /\ sent'[q] = sent'[r] => q = r
    <3>1. \A q \in Packet : q # p => sent'[q] # s
      BY <1>1, <1>4 DEF LineUp
    <3>2. QED
      BY <1>4, <3>1 DEF LineUp
  <2>2. \A q \in Packet : sent'[q] <= sequence'
    BY <1>1, <1>4 DEF LineUp
  <2>3. \A d \in queued' : d.sequenceNumber = sequence'
    BY <1>1, <1>8
  <2>4. ASSUME NEW i \in DOMAIN net', NEW j \in DOMAIN net', i < j
        PROVE  net'[i] # net'[j] /\ net'[i].sequenceNumber <= net'[j].sequenceNumber
    <3>0. i \in Nat /\ j \in Nat
      BY <1>2, <1>5
    <3>1. CASE j <= Len(net)
      <4>1. i \in DOMAIN net /\ j \in DOMAIN net /\ net'[i] = net[i] /\ net'[j] = net[j]
        BY <1>2, <1>5, <2>4, <3>0, <3>1
      <4>2. QED
        BY <2>4, <4>1 DEF LineUp
    <3>2. CASE i <= Len(net) /\ j > Len(net)
      <4>1. i \in DOMAIN net /\ net'[i] = net[i] /\ net[i] \in SentFragments
        BY <1>1, <1>2, <1>5, <3>0, <3>2
      <4>2. net'[j].sequenceNumber = s
        BY <1>3, <1>5, <1>8, <3>2
      <4>3. net'[i].sequenceNumber < s /\ net'[i].sequenceNumber \in Nat
        BY <1>7, <4>1
      <4>4. net'[i].sequenceNumber <= s /\ net'[i].sequenceNumber # s
        BY <1>1, <4>3
      <4>5. QED
        BY <4>2, <4>4
    <3>3. CASE i > Len(net)
      <4>1. j > Len(net)
        BY <1>5, <2>4, <3>0, <3>3
      <4>2. /\ net'[i] = Fragment(p, s, (i - Len(net)) - 1)
            /\ net'[j] = Fragment(p, s, (j - Len(net)) - 1)
        BY <1>3, <1>5, <3>3, <4>1
      <4>3. (i - Len(net)) - 1 # (j - Len(net)) - 1
        BY <1>5, <2>4, <3>0
      <4>4. net'[i] # net'[j]
        BY <4>2, <4>3, SameFragment
      <4>5. QED
        BY <1>1, <1>8, <4>2, <4>4
    <3>4. QED
      BY <1>5, <3>0, <3>1, <3>2, <3>3
  <2>5. ASSUME NEW i \in DOMAIN net'
        PROVE  net'[i] \notin queued'
    <3>0. i \in Nat
      BY <1>2, <1>5
    <3>1. CASE i <= Len(net)
      <4>1. i \in DOMAIN net /\ net'[i] = net[i] /\ net[i] \in SentFragments
        BY <1>1, <1>2, <1>5, <3>0, <3>1
      <4>2. net'[i].sequenceNumber # s
        BY <1>1, <1>7, <4>1
      <4>3. QED
        BY <1>1, <1>8, <4>2
    <3>2. CASE i > Len(net)
      <4>1. net'[i] = Fragment(p, s, (i - Len(net)) - 1) /\ i - Len(net) \in 1 .. n
        BY <1>3, <1>5, <3>2
      <4>2. (i - Len(net)) - 1 \notin n .. Count[p] - 1
        BY <1>2, <4>1
      <4>3. QED
        BY <1>1, <4>1, <4>2, SameFragment
    <3>3. QED
      BY <1>5, <3>0, <3>1, <3>2
  <2>6. QED
    BY <2>1, <2>2, <2>3, <2>4, <2>5 DEF LineUp
<1>12. ASSUME NEW k \in Slots
       PROVE  entry.currentSequence # s /\ entry.splitflags[k] # s
  <2>1. ASSUME NEW m, Known(m) PROVE m # s
    BY <1>1, <2>1 DEF Known, Users, LineUp
  <2>2. Known(entry.currentSequence) /\ Known(entry.splitflags[k])
    BY DEF Inv, EntryOK
  <2>3. QED
    BY <2>1, <2>2
<1>13. PacketOK(p, entry, delivered, InFlight)'
  <2>1. \A k \in Numbers(p) : Fragment(p, s, k) \in InFlight'
    BY <1>9
  <2>2. Ahead(p, InFlight)' = Numbers(p) /\ Come(p, InFlight)' = {}
    BY <1>4, <2>1 DEF Ahead, Come
  <2>3. Numbers(p) \subseteq Slots /\ 0 \in Slots
    <3>1. Numbers(p) \subseteq Slots
      BY Sizes
    <3>2. 0 \in 0 .. Count[p] - 1
      BY <1>2, Parted
    <3>3. QED
      BY <3>1, <3>2 DEF Numbers
  <2>4. QED
    BY <1>1, <1>4, <1>12, <2>2, <2>3 DEF PacketOK, Progress
<1>14. ASSUME NEW q \in Packet, q # p, sent'[q] # 0
       PROVE  PacketOK(q, entry, delivered, InFlight)'
  <2>1. sent'[q] = sent[q] /\ sent[q] # 0 /\ sent[q] # s /\ sent[q] <= s
    BY <1>1, <1>4, <1>14 DEF LineUp
  <2>2. \A k : Fragment(q, sent[q], k) \notin N
    BY <2>1, SameFragment
  <2>3. Ahead(q, InFlight)' = Ahead(q, InFlight) /\ Come(q, InFlight)' = Come(q, InFlight)
    BY <1>9, <2>1, <2>2 DEF Ahead, Come
  <2>4. PacketOK(q, entry, delivered, InFlight)
    BY <1>14, <2>1 DEF PacketsOK
  <2>5. Progress(q, entry, delivered, InFlight)'
    <3>1. CountedIn(entry, q, Come(q, InFlight)) => CountedIn(entry, q, Come(q, InFlight))'
      BY <1>1, <2>1, <2>3 DEF CountedIn
    <3>2. QED
      BY <1>1, <2>1, <2>3, <2>4, <3>1 DEF PacketOK, Progress
  <2>6. \A k \in Ahead(q, InFlight)' : entry'.splitflags[k] # sent'[q]
    BY <1>1, <2>1, <2>3, <2>4 DEF PacketOK
  <2>7. Come(q, InFlight)' # {} => \A d \in InFlight' : d.sequenceNumber >= sent'[q]
    <3>1. \A d \in N : d.sequenceNumber >= sent[q]
      BY <1>1, <1>8, <2>1
    <3>2. QED
      BY <1>9, <2>1, <2>3, <2>4, <3>1 DEF PacketOK
  <2>8. QED
    BY <2>5, <2>6, <2>7 DEF PacketOK
<1>15. QED
  BY <1>11, <1>13, <1>14 DEF PacketsOK

\* A queued fragment is sent: it is of the last packet.
LEMMA SendQueuedRegular ==
  ASSUME Inv, LineUp, PacketsOK(entry, delivered, InFlight), NEW d \in queued, SendQueued(d)
  PROVE  LineUp' /\ PacketsOK(entry, delivered, InFlight)'
<1>1. /\ queued' = queued \ {d} /\ net' = Append(net, d)
      /\ UNCHANGED <<sequence, entry, sent, delivered>>
      /\ net \in Seq(SentFragments) /\ d \in SentFragments
      /\ sent \in [Packet -> Nat] /\ sequence \in Nat
  BY DEF SendQueued, Inv, ShapeOK
<1>2. /\ Len(net) \in Nat /\ DOMAIN net = 1 .. Len(net)
      /\ DOMAIN net' = 1 .. Len(net) + 1
      /\ \A i \in 1 .. Len(net) : net'[i] = net[i]
      /\ net'[Len(net) + 1] = d
  BY <1>1
<1>3. InFlight' = InFlight
  <2>1. {net'[i] : i \in DOMAIN net'} = {net[i] : i \in DOMAIN net} \cup {d}
    <3>1. ASSUME NEW i \in DOMAIN net'
          PROVE  net'[i] \in {net[j] : j \in DOMAIN net} \cup {d}
      <4>1. CASE i = Len(net) + 1
        BY <1>2, <4>1
      <4>2. CASE i \in DOMAIN net
        BY <1>2, <4>2
      <4>3. QED
        BY <1>2, <4>1, <4>2
    <3>2. ASSUME NEW j \in DOMAIN net
          PROVE  net[j] \in {net'[i] : i \in DOMAIN net'}
      <4>1. j \in DOMAIN net' /\ net'[j] = net[j]
        BY <1>2
      <4>2. QED
        BY <4>1
    <3>3. d \in {net'[i] : i \in DOMAIN net'}
      <4>1. Len(net) + 1 \in DOMAIN net'
        BY <1>2
      <4>2. QED
        BY <1>2, <4>1
    <3>4. QED
      BY <3>1, <3>2, <3>3
  <2>2. QED
    BY <1>1, <2>1 DEF InFlight
<1>4. ASSUME NEW i \in DOMAIN net
      PROVE  net[i] # d /\ net[i].sequenceNumber <= d.sequenceNumber
  <2>1. d.sequenceNumber = sequence /\ net[i] \notin queued
    BY DEF LineUp
  <2>2. net[i] \in SentFragments
    BY <1>1
  <2>3. PICK r \in Packet : net[i].sequenceNumber = sent[r]
    BY <2>2, SentFragmentsDef DEF FragmentOf, Fragment
  <2>4. QED
    BY <2>1, <2>3 DEF LineUp
<1>5. LineUp'
  <2>1. ASSUME NEW i \in DOMAIN net', NEW j \in DOMAIN net', i < j
        PROVE  net'[i] # net'[j] /\ net'[i].sequenceNumber <= net'[j].sequenceNumber
    <3>1. i \in DOMAIN net /\ net'[i] = net[i]
      BY <1>2, <2>1
    <3>2. CASE j = Len(net) + 1
      BY <1>2, <1>4, <3>1, <3>2
    <3>3. CASE j \in DOMAIN net
      BY <1>2, <2>1, <3>1, <3>3 DEF LineUp
    <3>4. QED
      BY <1>2, <3>2, <3>3
  <2>2. ASSUME NEW i \in DOMAIN net'
        PROVE  net'[i] \notin queued'
    <3>1. CASE i = Len(net) + 1
      BY <1>1, <1>2, <3>1
    <3>2. CASE i \in DOMAIN net
      BY <1>1, <1>2, <3>2 DEF LineUp
    <3>3. QED
      BY <1>2, <3>1, <3>2
  <2>3. QED
    BY <1>1, <2>1, <2>2 DEF LineUp
<1>6. QED
  BY <1>1, <1>3, <1>5 DEF PacketsOK, PacketOK, Progress, Ahead, Come, CountedIn

\* Steps that do not keep faults at zero.
LEMMA FaultCounts ==
  ASSUME Inv, faults' = 0
  PROVE  ~Fault /\ \A regular \in BOOLEAN : FaultUnless(regular) => regular /\ faults = 0
<1>1. faults \in Nat
  BY LimitAssumption DEF Inv, ShapeOK
<1>2. ~Fault
  BY <1>1 DEF Fault
<1>3. QED
  BY <1>2 DEF FaultUnless

\* Every step keeps the train regular.
LEMMA NextRegular == Inv /\ Regular /\ [Next]_vars => Regular'
<1> SUFFICES ASSUME Inv, Regular, [Next]_vars, faults' = 0
             PROVE  LineUp' /\ PacketsOK(entry, delivered, InFlight)'
  BY DEF Regular
<1> DEFINE Goal == LineUp' /\ PacketsOK(entry, delivered, InFlight)'
<1>0. ~Fault /\ \A regular \in BOOLEAN : FaultUnless(regular) => regular /\ faults = 0
  BY FaultCounts
<1>1. ASSUME NEW p \in Packet, SendLong(p) PROVE Goal
  <2>1. /\ queued = {} /\ faults = 0
        /\ Split(p, Direct(p), Direct(p) .. Count[p] - 1)
    BY <1>0, <1>1 DEF SendLong, CanPacket
  <2>2. QED
    BY <2>1, SplitRegular DEF Regular
<1>2. ASSUME NEW p \in Packet, SendFails(p) PROVE Goal
  BY <1>0, <1>2 DEF SendFails
<1>3. ASSUME NEW d \in queued, SendQueued(d) PROVE Goal
  <2>1. faults = 0
    BY <1>3 DEF SendQueued
  <2>2. QED
    BY <1>3, <2>1, SendQueuedRegular DEF Regular
<1>4. ASSUME NEW i \in DOMAIN net, Receive(i) PROVE Goal
  <2>1. /\ i = 1 /\ faults = 0 /\ net' = RemoveAt(net, i) /\ GetLong(net[i])
        /\ UNCHANGED <<sequence, queued, sent>>
    BY <1>0, <1>4 DEF Receive
  <2>2. QED
    BY <1>4, <2>1, ReceiveRegular DEF Regular
<1>5. ASSUME NEW i \in DOMAIN net, Lose(i) PROVE Goal
  BY <1>0, <1>5 DEF Lose
<1>6. CASE Reset
  BY <1>0, <1>6 DEF Reset
<1>7. CASE DiscardStale
  <2>1. /\ net = <<>> /\ queued = {} /\ faults = 0 /\ entry' = FreshEntry
        /\ UNCHANGED <<sequence, queued, net, sent, delivered>>
    BY <1>0, <1>7 DEF DiscardStale
  <2>2. InFlight = {} /\ InFlight' = {}
    BY <2>1 DEF InFlight
  <2>3. LineUp'
    BY <2>1 DEF Regular, LineUp
  <2>4. ASSUME NEW p \in Packet, sent[p] # 0
        PROVE  PacketOK(p, entry, delivered, InFlight)'
    <3>1. PacketOK(p, entry, delivered, InFlight)
      BY <2>1, <2>4 DEF Regular, PacketsOK
    <3>2. Ahead(p, InFlight) = {} /\ Come(p, InFlight) = Numbers(p) /\ Numbers(p) # {}
      <4>1. 0 \in Numbers(p)
        BY Sizes DEF Numbers
      <4>2. QED
        BY <2>2, <4>1 DEF Ahead, Come
    <3>3. \E x \in delivered : x.data = Whole(p)
      BY <3>1, <3>2 DEF PacketOK, Progress, CountedIn
    <3>4. Ahead(p, InFlight)' = {}
      BY <2>2 DEF Ahead
    <3>5. QED
      BY <2>1, <2>2, <3>3, <3>4 DEF PacketOK, Progress
  <2>5. QED
    BY <2>1, <2>3, <2>4 DEF PacketsOK
<1>8. CASE UNCHANGED vars
  <2>1. /\ UNCHANGED <<sequence, queued, net, entry, sent, delivered>> /\ faults = 0
    BY <1>8 DEF vars
  <2>2. InFlight' = InFlight
    BY <2>1 DEF InFlight
  <2>3. LineUp'
    BY <2>1 DEF Regular, LineUp
  <2>4. QED
    BY <2>1, <2>2, <2>3 DEF Regular, PacketsOK, PacketOK, Progress, Ahead, Come, CountedIn
<1>9. QED
  BY <1>1, <1>2, <1>3, <1>4, <1>5, <1>6, <1>7, <1>8 DEF Next

\* It is regular at first.
LEMMA InitRegular == Init => Regular
<1> SUFFICES ASSUME Init PROVE LineUp /\ PacketsOK(entry, delivered, InFlight)
  BY DEF Regular
<1>1. LineUp
  BY DEF Init, LineUp, InitialSequence
<1>2. QED
  BY <1>1 DEF Init, PacketsOK

-----------------------------------------------------------------------------
(* The theorems *)

\* The invariant holds of every behaviour.
THEOREM InvAlways == Spec => []Inv
BY InitInv, NextInv, PTL DEF Spec

\* Fragments of every state are those of packets NET_SendLong has sent.
THEOREM TypeCorrect == Spec => []TypeOK
<1>1. Inv => TypeOK
  BY InvIsInductive
<1>2. QED
  BY <1>1, InvAlways, PTL

\* splitCount is the number of fragments that have yet to be copied, for any
\* packets, sizes and faults.
THEOREM CountsCorrect == Spec => []CountsMissing
<1>1. Inv => CountsMissing
  BY InvIsInductive
<1>2. QED
  BY <1>1, InvAlways, PTL

\* NET_GetLong returns whole datagrams, unless two had the same sequence number.
THEOREM DeliveredCorrect == Spec => []DeliveredWhole
<1>1. Inv => DeliveredWhole
  BY InvIsInductive
<1>2. QED
  BY <1>1, InvAlways, PTL

\* While callers ask CanPacket first and the network neither loses, repeats nor
\* reorders, every datagram is delivered or has fragments under way: no fragment of
\* one datagram ever pushes out those of another.
THEOREM NothingIsLost == Spec => []NothingLost
<1>1. Inv /\ Regular => NothingLost
  <2> SUFFICES ASSUME Regular, faults = 0, NEW p \in Packet, sent[p] # 0
               PROVE  \/ \E d \in delivered : d.data = Whole(p)
                      \/ \E d \in InFlight : d.data[1] = p
    BY DEF NothingLost
  <2>1. Progress(p, entry, delivered, InFlight)
    BY DEF Regular, PacketsOK, PacketOK
  <2>2. CASE Ahead(p, InFlight) = {}
    <3>1. 0 \in Numbers(p)
      BY Sizes DEF Numbers
    <3>2. Come(p, InFlight) = Numbers(p) /\ Numbers(p) # {}
      BY <2>2, <3>1 DEF Come
    <3>3. QED
      BY <2>1, <3>2 DEF Progress, CountedIn
  <2>3. CASE Ahead(p, InFlight) # {}
    <3>1. PICK k : k \in Ahead(p, InFlight)
      BY <2>3
    <3>2. Fragment(p, sent[p], k) \in InFlight /\ Fragment(p, sent[p], k).data[1] = p
      BY <3>1 DEF Ahead, Fragment
    <3>3. QED
      BY <3>2
  <2>4. QED
    BY <2>2, <2>3
<1>2. Inv /\ Regular /\ [Next]_vars => Regular'
  BY NextRegular
<1>3. QED
  BY <1>1, <1>2, InitRegular, InvAlways, PTL DEF Spec

=============================================================================
