---------------------------- MODULE TSQueueProofs ---------------------------
(***************************************************************************)
(* Proofs about TSQueue, for every number of threads, nodes and calls, and *)
(* that a CJobQueue uses it as TSQueue says. The invariant gives each node *)
(* a place: the queue, the free list, or a thread that took it off one of  *)
(* them and has not put it in the other. What it says of a list it says of *)
(* neighbours, by positions that ascend along pNext, so that a step, which *)
(* writes one link, disturbs what is said of one node; that Chain finds    *)
(* the nodes of a place comes last.                                        *)
(***************************************************************************)
EXTENDS JobQueueNodes, FiniteSums

-----------------------------------------------------------------------------
(* Where a node is *)

InQueue == <<"queue", Null>>
OnFree == <<"free list", Null>>
Unmade == <<"memory", Null>>
Of(t) == <<"thread", t>>
Place == {InQueue, OnFree, Unmade} \cup {Of(t) : t \in Thread}

\* A thread with a node of its own: at the end of PushItem, with the nodes linked behind
\* it, or in PopItem after m_Head was moved past the node.
Marking(t) == At(t, "mark")
Linking(t) == local[t].at \in {"tail sequence", "tail node", "append", "help", "help finish"}
Popped(t) == local[t].at \in {"uncount", "free"}
Owning(t) == Marking(t) \/ Linking(t) \/ Popped(t)
Held(t) == IF Popped(t) THEN local[t].node ELSE local[t].mine

\* n is followed by the node behind it, or is the last and ends in stop.
Linked(own, pos, n, stop) ==
  \/ next[n] \in Node /\ own[next[n]] = own[n] /\ pos[next[n]] = pos[n] + 1
  \/ next[n] = stop /\ \A m \in Node : own[m] = own[n] => pos[m] <= pos[n]

Leads(own, pos, n) == \A m \in Node : own[m] = own[n] => pos[n] <= pos[m]

Places(own, pos) ==
  /\ own \in [Node -> Place] /\ pos \in [Node -> Int]
  /\ \A m, n \in Node : own[m] = own[n] /\ pos[m] = pos[n] => m = n

Lists(own, pos) ==
  \A n \in Node :
    /\ own[n] = InQueue => Linked(own, pos, n, End)
    /\ own[n] = OnFree => Linked(own, pos, n, Null)
    /\ \A t \in Thread :
         own[n] = Of(t) =>
           /\ Owning(t)
           /\ Linking(t) => Linked(own, pos, n, End)
           /\ ~Linking(t) => n = Held(t) /\ next[n] # End
    /\ own[n] = Unmade <=> n >= made
    /\ own[n] = Unmade => next[n] # End

Roots(own, pos) ==
  /\ own[head.node] = InQueue /\ Leads(own, pos, head.node)
  /\ free # Null => own[free] = OnFree /\ Leads(own, pos, free)
  /\ free = Null => \A n \in Node : own[n] # OnFree
  /\ \A t \in Thread : Owning(t) => /\ Held(t) \in Node
                                    /\ own[Held(t)] = Of(t)
                                    /\ Leads(own, pos, Held(t))

Strict(older) ==
  /\ \A t \in Thread : <<t, t>> \notin older
  /\ \A t, u, v \in Thread : <<t, u>> \in older /\ <<u, v>> \in older => <<t, v>> \in older

\* A thread about to write behind a node that is in another thread's hands began before
\* that one took its node, so nodes are never linked in a circle.
Younger(own, older) ==
  /\ Strict(older)
  /\ \A t, u \in Thread :
       At(t, "append") /\ own[local[t].node] = Of(u) /\ ~Popped(u) => <<t, u>> \in older

-----------------------------------------------------------------------------
(* What a thread knows *)

\* What the sequence numbers a thread has read say about the nodes it has read.
KnowsTail(t) ==
  LET r == local[t]
      same == r.sequence = tail.sequence
  IN  /\ r.at \in {"tail node", "append", "help", "help finish", "finish"} =>
           r.sequence <= tail.sequence
      /\ r.at \in {"append", "help", "help finish", "finish"} =>
           r.node \in Node /\ (same => r.node = tail.node)
      /\ r.at = "help" => (same => next[r.node] # End)
      /\ r.at = "help finish" => (same => next[r.node] = r.next /\ r.next \in Node)
      /\ r.at = "finish" => (same => next[r.node] = r.mine) /\ r.mine \in Node

KnowsHead(t) ==
  LET r == local[t]
      same == r.sequence = head.sequence
  IN  /\ r.at \in {"head node", "pop tail sequence", "next", "recheck", "compare", "pop help",
                   "element", "advance"} => r.sequence <= head.sequence
      /\ r.at \in {"pop tail sequence", "next", "recheck", "compare", "pop help", "element",
                   "advance"} => r.node \in Node /\ (same => r.node = head.node)
      /\ r.at \in {"next", "recheck", "compare", "pop help"} => r.tailSequence <= tail.sequence
      /\ r.at \in {"recheck", "compare", "pop help"} =>
           (r.tailSequence = tail.sequence /\ tail.node = r.node /\ r.next \in Node
              => next[r.node] = r.next)
      /\ r.at \in {"recheck", "compare", "element", "advance"} =>
           (same /\ r.next \in Node => next[r.node] = r.next)
      /\ r.at = "compare" => r.next # Null
      /\ r.at \in {"pop help", "element", "advance"} => r.next \in Node
      /\ r.at \in {"element", "advance"} => (same => tail.node # r.node)
      /\ r.at = "advance" => (same => r.elem = elem[r.next])

-----------------------------------------------------------------------------
(* Where an item is *)

\* n has an item that is not popped.
Live(own, n) ==
  \/ own[n] = InQueue /\ n # head.node
  \/ \E t \in Thread : own[n] = Of(t) /\ ~Popped(t)

Waiting == {i \in pushed : taken[i] = 0}

Items(own) ==
  /\ \A n \in Node : Live(own, n) => elem[n] \in Waiting
  /\ \A m, n \in Node : Live(own, m) /\ Live(own, n) /\ elem[m] = elem[n] => m = n
  /\ \A t \in Thread : Popped(t) => local[t].elem \in Waiting
  /\ \A t, u \in Thread : Popped(t) /\ Popped(u) /\ local[t].elem = local[u].elem => t = u
  /\ \A n \in Node, t \in Thread : Live(own, n) /\ Popped(t) => elem[n] # local[t].elem
  /\ \A i \in Waiting : \/ \E n \in Node : Live(own, n) /\ elem[n] = i
                        \/ \E t \in Thread : Popped(t) /\ local[t].elem = i

\* Items are numbered down, each popped at most once.
History ==
  /\ \A i \in pushed : i[2] > left[i[1]]
  /\ PoppedOnce

\* m_Count lags behind the threads that are about to change it.
Pushing == {t \in Thread : Marking(t) \/ Linking(t) \/ local[t].at \in {"finish", "count"}}
Freeing == {t \in Thread : At(t, "free")}
Counted == Cardinality(Waiting) = count + Cardinality(Pushing) + Cardinality(Freeing)

-----------------------------------------------------------------------------
(* The invariant *)

LinkType == [node : Node, sequence : Int]

Where ==
  {"idle", "mark", "tail sequence", "tail node", "append", "help", "help finish", "finish",
   "count", "again", "head node", "pop tail sequence", "next", "recheck", "compare",
   "pop help", "element", "advance", "uncount", "free"}

Local ==
  [at : Where, mine : Node \cup {Null}, node : Node \cup {Null}, sequence : Int,
   tailSequence : Int, next : Node \cup {End, Null}, elem : Item \cup {Null},
   result : {Null, "empty", "item"}]

Types ==
  /\ next \in [Node -> Node \cup {End, Null}]
  /\ elem \in [Node -> Item \cup {Null}]
  /\ head \in LinkType /\ tail \in LinkType
  /\ count \in Int
  /\ free \in Node \cup {Null}
  /\ made \in 1 .. MaxNodes
  /\ local \in [Thread -> Local]
  /\ left \in [Thread -> 0 .. MaxCalls]
  /\ pushed \in SUBSET Item
  /\ taken \in [Item -> Nat]

Knowing == \A t \in Thread : KnowsTail(t) /\ KnowsHead(t)

Shape(own, pos) == Places(own, pos) /\ Lists(own, pos) /\ Roots(own, pos)

Whole(own, pos, older) ==
  /\ Types /\ Knowing /\ History /\ Counted
  /\ Shape(own, pos)
  /\ own[tail.node] = InQueue
  /\ Younger(own, older)
  /\ Items(own)

Inv == \E own, pos, older : Whole(own, pos, older)

-----------------------------------------------------------------------------
(* Places and nodes *)

\* The places are told apart.
LEMMA PlacesDiffer ==
  /\ InQueue # OnFree /\ InQueue # Unmade /\ OnFree # Unmade
  /\ \A t \in Thread : Of(t) # InQueue /\ Of(t) # OnFree /\ Of(t) # Unmade
  /\ \A t, u \in Thread : Of(t) = Of(u) => t = u
BY DEF InQueue, OnFree, Unmade, Of

\* End and Null are no nodes, and nodes are numbers.
LEMMA NodeFacts ==
  /\ End \notin Node /\ Null \notin Node /\ End # Null
  /\ Node \subseteq Nat /\ \A n \in Int : n \in Node <=> 0 <= n /\ n < MaxNodes
  /\ IsFiniteSet(Node) /\ IsFiniteSet(Thread)
  /\ MaxNodes \in Nat \ {0} /\ MaxCalls \in Nat
<1>1. IsFiniteSet(Node)
  BY TSQueueAssumption, FS_Interval DEF Node
<1> QED BY <1>1, TSQueueAssumption DEF Node

\* The last node of a list, and the node behind one that is not the last.
LEMMA QueueLinks ==
  ASSUME NEW own, NEW pos, Shape(own, pos), Types, NEW n \in Node, own[n] = InQueue
  PROVE  /\ next[n] # End => /\ next[n] \in Node /\ own[next[n]] = InQueue
                             /\ pos[next[n]] = pos[n] + 1
         /\ next[n] = End => \A m \in Node : own[m] = InQueue => pos[m] <= pos[n]
BY NodeFacts DEF Shape, Lists, Linked

-----------------------------------------------------------------------------
(* What the others know *)

\* What no step does to the others: m_Head and m_Tail move with their sequence
\* numbers, m_Tail to the node behind it, and a node in the queue keeps its item and,
\* unless it is the last, its link.
Calm(own) ==
  /\ \/ tail' = tail
     \/ tail' = Link(next[tail.node], tail.sequence + 1) /\ next[tail.node] \in Node
  /\ head' = head \/ (head'.sequence = head.sequence + 1 /\ head'.node \in Node)
  /\ \A n \in Node : own[n] = InQueue => /\ next[n] # End => next'[n] = next[n]
                                         /\ elem'[n] = elem[n]

\* m_Tail is never moved back past m_Head.
LEMMA TailAhead ==
  ASSUME NEW own, NEW pos, Shape(own, pos), Types, own[tail.node] = InQueue,
         next[tail.node] \in Node
  PROVE  /\ own[next[tail.node]] = InQueue
         /\ next[tail.node] # head.node
<1>1. tail.node \in Node /\ head.node \in Node
  BY DEF Types, LinkType
<1>2. own[next[tail.node]] = InQueue /\ pos[next[tail.node]] = pos[tail.node] + 1
  <2>1. next[tail.node] # End
    BY NodeFacts
  <2> QED BY <1>1, <2>1, QueueLinks
<1>3. pos[head.node] <= pos[tail.node]
  BY <1>1 DEF Shape, Roots, Leads
<1>4. pos[head.node] \in Int /\ pos[tail.node] \in Int
  BY <1>1 DEF Shape, Places
<1> QED BY <1>2, <1>3, <1>4

\* A thread that pushes still knows what it knew.
LEMMA TailKept ==
  ASSUME NEW own, Calm(own), Types, Types', own[tail.node] = InQueue,
         NEW u \in Thread, local'[u] = local[u], KnowsTail(u)
  PROVE  KnowsTail(u)'
<1> DEFINE r == local[u]
<1>1. r \in Local /\ tail \in LinkType /\ tail' \in LinkType
  BY DEF Types
<1>2. r.sequence \in Int /\ tail.sequence \in Int /\ tail'.sequence \in Int
      /\ tail.node \in Node
  BY <1>1 DEF Local, LinkType
<1>3. tail'.sequence >= tail.sequence /\ (tail'.sequence = tail.sequence => tail' = tail)
  BY <1>2 DEF Calm, Link
<1>4. next[tail.node] # End => next'[tail.node] = next[tail.node]
  BY <1>2 DEF Calm
<1>5. CASE r.sequence = tail'.sequence /\ r.sequence <= tail.sequence
  <2>1. tail' = tail /\ r.sequence = tail.sequence
    BY <1>2, <1>3, <1>5
  <2> QED BY <1>2, <1>4, <2>1, NodeFacts DEF KnowsTail
<1>6. CASE ~(r.sequence = tail'.sequence /\ r.sequence <= tail.sequence)
  <2>1. r.sequence <= tail.sequence => r.sequence <= tail'.sequence
    BY <1>2, <1>3
  <2> QED BY <1>2, <1>6, <2>1 DEF KnowsTail
<1> QED BY <1>5, <1>6

\* A thread that pops still knows what it knew.
LEMMA HeadKept ==
  ASSUME NEW own, NEW pos, Calm(own), Types, Types', Shape(own, pos), own[tail.node] = InQueue,
         NEW u \in Thread, local'[u] = local[u], KnowsHead(u)
  PROVE  KnowsHead(u)'
<1> DEFINE r == local[u]
<1>1. r \in Local /\ tail \in LinkType /\ tail' \in LinkType
      /\ head \in LinkType /\ head' \in LinkType
  BY DEF Types
<1>2. /\ r.sequence \in Int /\ r.tailSequence \in Int
      /\ tail.sequence \in Int /\ tail'.sequence \in Int /\ tail.node \in Node
      /\ head.sequence \in Int /\ head'.sequence \in Int /\ head.node \in Node
  BY <1>1 DEF Local, LinkType
<1>3. tail'.sequence >= tail.sequence /\ (tail'.sequence = tail.sequence => tail' = tail)
  BY <1>2 DEF Calm, Link
<1>4. head'.sequence >= head.sequence /\ (head'.sequence = head.sequence => head' = head)
  BY <1>2 DEF Calm
<1>5. /\ next[tail.node] # End => next'[tail.node] = next[tail.node]
      /\ next[head.node] # End => next'[head.node] = next[head.node]
  BY <1>2 DEF Calm, Shape, Roots
<1>6. tail'.node = tail.node \/ tail'.node # head.node
  BY TailAhead DEF Calm, Link
<1>7. next[head.node] \in Node => elem'[next[head.node]] = elem[next[head.node]]
  <2>1. own[head.node] = InQueue
    BY DEF Shape, Roots
  <2>2. next[head.node] # End => own[next[head.node]] = InQueue
    BY <1>2, <2>1, QueueLinks
  <2>3. next[head.node] \in Node => next[head.node] # End
    BY NodeFacts
  <2> QED BY <2>2, <2>3 DEF Calm
<1>8. r.sequence <= head.sequence =>
        (r.sequence = head'.sequence => head' = head /\ r.sequence = head.sequence)
  BY <1>2, <1>4
<1>9. r.tailSequence <= tail.sequence =>
        (r.tailSequence = tail'.sequence => tail' = tail /\ r.tailSequence = tail.sequence)
  BY <1>2, <1>3
<1>10. /\ r.sequence <= head.sequence => r.sequence <= head'.sequence
       /\ r.tailSequence <= tail.sequence => r.tailSequence <= tail'.sequence
  BY <1>2, <1>3, <1>4
<1> HIDE DEF Calm
<1>11. CASE r.at \in {"head node", "pop tail sequence", "next"}
  BY <1>8, <1>9, <1>10, <1>11 DEF KnowsHead
<1>12. CASE r.at = "recheck"
  BY <1>5, <1>8, <1>9, <1>10, <1>12, NodeFacts DEF KnowsHead
<1>13. CASE r.at = "compare"
  BY <1>5, <1>8, <1>9, <1>10, <1>13, NodeFacts DEF KnowsHead
<1>14. CASE r.at = "pop help"
  BY <1>5, <1>8, <1>9, <1>10, <1>14, NodeFacts DEF KnowsHead
<1>15. CASE r.at = "element"
  BY <1>5, <1>6, <1>8, <1>10, <1>15, NodeFacts DEF KnowsHead
<1>16. CASE r.at = "advance"
  BY <1>5, <1>6, <1>7, <1>8, <1>10, <1>16, NodeFacts DEF KnowsHead
<1> QED BY <1>11, <1>12, <1>13, <1>14, <1>15, <1>16 DEF KnowsHead

-----------------------------------------------------------------------------
(* One thread moves *)

\* The record r after a step of t has the part in the lists that s had.
SameRole(r, s) ==
  /\ (r.at = "mark" <=> s.at = "mark")
  /\ (r.at \in {"tail sequence", "tail node", "append", "help", "help finish"}) <=>
       (s.at \in {"tail sequence", "tail node", "append", "help", "help finish"})
  /\ (r.at \in {"uncount", "free"}) <=> (s.at \in {"uncount", "free"})
  /\ s.at \in {"mark", "tail sequence", "tail node", "append", "help", "help finish"} =>
       r.mine = s.mine
  /\ s.at \in {"uncount", "free"} => r.node = s.node /\ r.elem = s.elem

\* What the new record means for the roles of all.
LEMMA RolesKept ==
  ASSUME Types, NEW t \in Thread, NEW r \in Local, local' = [local EXCEPT ![t] = r],
         SameRole(r, local[t]), NEW u \in Thread
  PROVE  /\ (Marking(u)' <=> Marking(u)) /\ (Linking(u)' <=> Linking(u)) /\ (Popped(u)' <=> Popped(u))
         /\ (Owning(u)' <=> Owning(u))
         /\ Owning(u) => Held(u)' = Held(u)
         /\ Popped(u) => local'[u].elem = local[u].elem
<1>1. local'[u] = IF u = t THEN r ELSE local[u]
  BY DEF Types
<1>2. CASE u # t
  BY <1>1, <1>2 DEF Marking, Linking, Popped, Owning, Held, At
<1>3. CASE u = t
  <2>1. local'[u] = r /\ SameRole(r, local[u])
    BY <1>1, <1>3
  <2> QED BY <2>1 DEF SameRole, Marking, Linking, Popped, Owning, Held, At
<1> QED BY <1>2, <1>3

\* The lists stay when no link, no root and no role changes.
LEMMA ShapeKept ==
  ASSUME NEW own, NEW pos, Shape(own, pos),
         next' = next, head' = head, free' = free, made' = made,
         \A u \in Thread : /\ (Linking(u)' <=> Linking(u)) /\ (Owning(u)' <=> Owning(u))
                           /\ Owning(u) => Held(u)' = Held(u)
  PROVE  Shape(own, pos)'
<1>1. Places(own, pos)'
  BY DEF Shape, Places
<1>2. Roots(own, pos)'
  BY DEF Shape, Roots, Leads
<1>3. \A n \in Node, e \in {End, Null} : Linked(own, pos, n, e)' = Linked(own, pos, n, e)
  BY DEF Linked
<1>4. Lists(own, pos)'
  BY <1>3 DEF Shape, Lists
<1> QED BY <1>1, <1>2, <1>4 DEF Shape

\* The items stay where they are.
LEMMA ItemsKept ==
  ASSUME NEW own, Items(own), head' = head, elem' = elem, pushed' = pushed, taken' = taken,
         \A u \in Thread : /\ (Popped(u)' <=> Popped(u))
                           /\ Popped(u) => local'[u].elem = local[u].elem
  PROVE  Items(own)'
<1>1. Waiting' = Waiting
  BY DEF Waiting
<1>2. \A n : Live(own, n)' = Live(own, n)
  BY DEF Live
<1> QED BY <1>1, <1>2 DEF Items

\* Who is being counted after t has moved to r.
LEMMA CountMoves ==
  ASSUME Types, NEW t \in Thread, NEW r \in Local, local' = [local EXCEPT ![t] = r]
  PROVE  /\ Pushing' = IF r.at \in {"mark", "tail sequence", "tail node", "append", "help",
                                    "help finish", "finish", "count"}
                       THEN Pushing \cup {t} ELSE Pushing \ {t}
         /\ Freeing' = IF r.at = "free" THEN Freeing \cup {t} ELSE Freeing \ {t}
         /\ IsFiniteSet(Pushing) /\ IsFiniteSet(Freeing)
<1>1. \A u \in Thread : local'[u] = IF u = t THEN r ELSE local[u]
  BY DEF Types
<1>2. Pushing \in SUBSET Thread /\ Freeing \in SUBSET Thread
  BY DEF Pushing, Freeing
<1>3. IsFiniteSet(Pushing) /\ IsFiniteSet(Freeing)
  BY <1>2, NodeFacts, FS_Subset
<1> QED BY <1>1, <1>3 DEF Pushing, Freeing, Marking, Linking, At

\* A thread is counted as before when it stays on its side of the two counts.
LEMMA CountedKept ==
  ASSUME Types, Counted, NEW t \in Thread, NEW r \in Local, local' = [local EXCEPT ![t] = r],
         pushed' = pushed, taken' = taken, count' = count,
         (t \in Pushing) <=> (r.at \in {"mark", "tail sequence", "tail node", "append", "help",
                                      "help finish", "finish", "count"}),
         (t \in Freeing) <=> (r.at = "free")
  PROVE  Counted'
<1> DEFINE P == Pushing
           F == Freeing
           Pn == Pushing'
           Fn == Freeing'
<1>1. Pn = P /\ Fn = F
  <2>1. /\ Pn = IF r.at \in {"mark", "tail sequence", "tail node", "append", "help",
                             "help finish", "finish", "count"} THEN P \cup {t} ELSE P \ {t}
        /\ Fn = IF r.at = "free" THEN F \cup {t} ELSE F \ {t}
    BY CountMoves
  <2>2. /\ (t \in P) <=> (r.at \in {"mark", "tail sequence", "tail node", "append", "help",
                                    "help finish", "finish", "count"})
        /\ (t \in F) <=> (r.at = "free")
    OBVIOUS
  <2> HIDE DEF P, F, Pn, Fn
  <2> QED BY <2>1, <2>2
<1>2. Waiting' = Waiting
  BY DEF Waiting
<1> QED BY <1>1, <1>2 DEF Counted

\* A step that writes no link and takes no node: the invariant is kept when the thread
\* knows what it should afterwards.
LEMMA PlainStep ==
  ASSUME NEW own, NEW pos, NEW older, Whole(own, pos, older),
         NEW t \in Thread, NEW r \in Local, local' = [local EXCEPT ![t] = r],
         SameRole(r, local[t]), r.at = "append" => own[r.node] = InQueue,
         next' = next, elem' = elem, head' = head, free' = free, made' = made,
         pushed' = pushed, taken' = taken, count' \in Int,
         tail' = tail \/ (tail' = Link(next[tail.node], tail.sequence + 1)
                            /\ next[tail.node] \in Node),
         left' = left \/ (left[t] > 0 /\ left' = [left EXCEPT ![t] = @ - 1]),
         Counted', KnowsTail(t)', KnowsHead(t)'
  PROVE  Whole(own, pos, older)'
<1>1. /\ Types /\ Knowing /\ History /\ Counted /\ Shape(own, pos)
      /\ own[tail.node] = InQueue /\ Younger(own, older) /\ Items(own)
  BY DEF Whole
<1>2. Types'
  <2>1. tail' \in LinkType
    BY <1>1 DEF Types, LinkType, Link
  <2>2. left' \in [Thread -> 0 .. MaxCalls]
    BY <1>1, NodeFacts DEF Types
  <2> QED BY <1>1, <2>1, <2>2 DEF Types
<1>3. Calm(own)
  BY DEF Calm
<1>4. \A u \in Thread : u # t => local'[u] = local[u]
  BY <1>1 DEF Types
<1>5. Knowing'
  <2>1. ASSUME NEW u \in Thread, u # t PROVE KnowsTail(u)' /\ KnowsHead(u)'
    <3>1. KnowsTail(u) /\ KnowsHead(u)
      BY <1>1 DEF Knowing
    <3> QED BY <1>1, <1>2, <1>3, <1>4, <2>1, <3>1, TailKept, HeadKept
  <2> QED BY <2>1 DEF Knowing
<1>6. \A u \in Thread :
        /\ (Marking(u)' <=> Marking(u)) /\ (Linking(u)' <=> Linking(u)) /\ (Popped(u)' <=> Popped(u))
        /\ (Owning(u)' <=> Owning(u))
        /\ Owning(u) => Held(u)' = Held(u)
        /\ Popped(u) => local'[u].elem = local[u].elem
  BY <1>1, RolesKept
<1>7. History'
  <2>1. \A u \in Thread : left'[u] <= left[u] /\ left[u] \in Int /\ left'[u] \in Int
    BY <1>1, <1>2 DEF Types
  <2>2. \A i \in pushed : i[1] \in Thread /\ i[2] \in Int
    BY <1>1, NodeFacts DEF Types, Item
  <2> QED BY <1>1, <2>1, <2>2 DEF History, PoppedOnce
<1>8. Shape(own, pos)'
  BY <1>1, <1>6, ShapeKept
<1>9. own[tail'.node] = InQueue
  BY <1>1, TailAhead DEF Link
<1>10. Younger(own, older)'
  <2>1. ASSUME NEW u \in Thread, At(u, "append")', own[local'[u].node] # InQueue
        PROVE  At(u, "append") /\ local'[u].node = local[u].node
    <3>1. u # t
      BY <1>1, <2>1 DEF At, Types
    <3> QED BY <1>4, <2>1, <3>1 DEF At
  <2>2. \A u \in Thread : Of(u) # InQueue
    BY PlacesDiffer
  <2> QED BY <1>1, <1>6, <2>1, <2>2 DEF Younger
<1>11. Items(own)'
  BY <1>1, <1>6, ItemsKept
<1> QED BY <1>2, <1>5, <1>7, <1>8, <1>9, <1>10, <1>11 DEF Whole

\* As PlainStep, of a thread that is counted as it was.
LEMMA QuietStep ==
  ASSUME NEW own, NEW pos, NEW older, Whole(own, pos, older),
         NEW t \in Thread, NEW r \in Local, local' = [local EXCEPT ![t] = r],
         SameRole(r, local[t]), r.at = "append" => own[r.node] = InQueue,
         r.at \in {"finish", "count"} <=> local[t].at \in {"finish", "count"},
         r.at = "free" <=> local[t].at = "free",
         next' = next, elem' = elem, head' = head, free' = free, made' = made,
         pushed' = pushed, taken' = taken, count' = count,
         tail' = tail \/ (tail' = Link(next[tail.node], tail.sequence + 1)
                            /\ next[tail.node] \in Node),
         left' = left \/ (left[t] > 0 /\ left' = [left EXCEPT ![t] = @ - 1]),
         KnowsTail(t)', KnowsHead(t)'
  PROVE  Whole(own, pos, older)'
<1>1. Types /\ Counted /\ count' \in Int
  BY DEF Whole, Types
<1>2. (t \in Pushing) <=> (r.at \in {"mark", "tail sequence", "tail node", "append", "help",
                                   "help finish", "finish", "count"})
  BY DEF SameRole, Pushing, Marking, Linking, At
<1>3. (t \in Freeing) <=> (r.at = "free")
  BY DEF Freeing, At
<1>4. Counted'
  BY <1>1, <1>2, <1>3, CountedKept
<1> QED BY <1>1, <1>4, PlainStep

\* What the invariant says of a thread and of what it reads next.
LEMMA Reads ==
  ASSUME NEW own, NEW pos, NEW older, Whole(own, pos, older), NEW t \in Thread
  PROVE  /\ local \in [Thread -> Local] /\ local[t] \in Local
         /\ local[t].sequence \in Int /\ local[t].tailSequence \in Int
         /\ local[t].node \in Node \cup {Null} /\ local[t].mine \in Node \cup {Null}
         /\ local[t].next \in Node \cup {End, Null} /\ local[t].elem \in Item \cup {Null}
         /\ local[t].result \in {Null, "empty", "item"} /\ local[t].at \in Where
         /\ tail.node \in Node /\ tail.sequence \in Int
         /\ head.node \in Node /\ head.sequence \in Int
         /\ tail = Link(tail.node, tail.sequence) /\ head = Link(head.node, head.sequence)
         /\ KnowsTail(t) /\ KnowsHead(t)
         /\ own[tail.node] = InQueue /\ own[head.node] = InQueue
         /\ \A n \in Node : next[n] \in Node \cup {End, Null} /\ elem[n] \in Item \cup {Null}
<1>1. Types /\ Knowing /\ Shape(own, pos) /\ own[tail.node] = InQueue
  BY DEF Whole
<1>2. local \in [Thread -> Local] /\ local[t] \in Local /\ tail \in LinkType /\ head \in LinkType
  BY <1>1 DEF Types
<1>3. own[head.node] = InQueue
  BY <1>1 DEF Shape, Roots
<1>4. \A n \in Node : next[n] \in Node \cup {End, Null} /\ elem[n] \in Item \cup {Null}
  BY <1>1 DEF Types
<1>5. KnowsTail(t) /\ KnowsHead(t)
  BY <1>1 DEF Knowing
<1>6. tail = Link(tail.node, tail.sequence) /\ head = Link(head.node, head.sequence)
  BY <1>2 DEF LinkType, Link
<1> QED BY <1>1, <1>2, <1>3, <1>4, <1>5, <1>6 DEF Local, LinkType

\* A node in the queue that is not the last has another of the queue behind it.
LEMMA NextInQueue ==
  ASSUME NEW own, NEW pos, NEW older, Whole(own, pos, older), NEW n \in Node,
         own[n] = InQueue, next[n] # End
  PROVE  next[n] \in Node
BY QueueLinks DEF Whole

-----------------------------------------------------------------------------
(* Records of a thread *)

\* A call over.
LEMMA ReturnedLocal ==
  ASSUME NEW x \in {Null, "empty", "item"}
  PROVE  Returned(x) \in Local /\ Returned(x).at = "idle"
BY DEF Local, Where, Returned

\* The loop of PopItem begun.
LEMMA LoopLocal ==
  ASSUME NEW s \in Int
  PROVE  LET r == [Returned(Null) EXCEPT !.at = "head node", !.sequence = s]
         IN  r \in Local /\ r.at = "head node" /\ r.sequence = s
<1> DEFINE z == Returned(Null)
<1>1. z \in Local
  BY ReturnedLocal
<1> HIDE DEF z
<1>2. /\ [z EXCEPT !.at = "head node", !.sequence = s] \in Local
      /\ [z EXCEPT !.at = "head node", !.sequence = s].at = "head node"
      /\ [z EXCEPT !.at = "head node", !.sequence = s].sequence = s
  BY <1>1 DEF Local, Where
<1> QED BY <1>2 DEF z

\* A node taken for an item.
LEMMA MarkLocal ==
  ASSUME NEW n \in Node
  PROVE  LET r == [Returned(Null) EXCEPT !.at = "mark", !.mine = n]
         IN  r \in Local /\ r.at = "mark" /\ r.mine = n
<1> DEFINE z == Returned(Null)
<1>1. z \in Local
  BY ReturnedLocal
<1> HIDE DEF z
<1>2. /\ [z EXCEPT !.at = "mark", !.mine = n] \in Local
      /\ [z EXCEPT !.at = "mark", !.mine = n].at = "mark"
      /\ [z EXCEPT !.at = "mark", !.mine = n].mine = n
  BY <1>1 DEF Local, Where
<1> QED BY <1>2 DEF z

-----------------------------------------------------------------------------
(* Steps of a push that leave the links alone *)

\* A thread that pushes reads the sequence number of m_Tail before the node.
LEMMA ReadTailSequenceStep ==
  ASSUME NEW own, NEW pos, NEW older, Whole(own, pos, older), NEW t \in Thread, ReadTailSequence(t)
  PROVE  Whole(own, pos, older)'
<1> DEFINE r == [local[t] EXCEPT !.at = "tail node", !.sequence = tail.sequence]
<1>1. local' = [local EXCEPT ![t] = r]
  BY DEF ReadTailSequence, At, Goto, Return, Loop, Begin
<1>2. local[t].at = "tail sequence"
  BY DEF ReadTailSequence, At, Begin, Idle
<1>3. next' = next /\ tail' = tail /\ head' = head /\ elem' = elem
  BY DEF ReadTailSequence, Begin, vars
<1>4. r \in Local /\ r.sequence = tail.sequence /\ r.mine = local[t].mine
  <2>1. /\ local[t] \in Local
        /\ tail.sequence \in Int /\ head.sequence \in Int /\ tail.node \in Node /\ head.node \in Node
    BY Reads
  <2> QED BY <2>1 DEF Local, Where
<1>5. r.at = "tail node"
  <2>1. local[t] \in Local
    BY Reads
  <2> QED BY <2>1 DEF Local
<1>6. local'[t] = r
  BY <1>1, Reads
<1> HIDE DEF r
<1>7. SameRole(r, local[t])
  BY <1>2, <1>4, <1>5 DEF SameRole
<1>9. KnowsTail(t)'
  <2>1. local'[t].at = "tail node"
    BY <1>5, <1>6
  <2>2. local'[t].sequence <= tail'.sequence
    BY <1>3, <1>4, <1>6, Reads
  <2> QED BY <2>1, <2>2 DEF KnowsTail
<1>10. KnowsHead(t)'
  BY <1>5, <1>6 DEF KnowsHead
<1> QED BY <1>1, <1>2, <1>3, <1>4, <1>5, <1>7, <1>9, <1>10, QuietStep DEF ReadTailSequence, Begin, vars

\* It reads the node, which is in the queue now.
LEMMA ReadTailNodeStep ==
  ASSUME NEW own, NEW pos, NEW older, Whole(own, pos, older), NEW t \in Thread, ReadTailNode(t)
  PROVE  Whole(own, pos, older)'
<1> DEFINE r == [local[t] EXCEPT !.at = "append", !.node = tail.node]
<1>1. local' = [local EXCEPT ![t] = r]
  BY DEF ReadTailNode, At, Goto, Return, Loop, Begin
<1>2. local[t].at = "tail node"
  BY DEF ReadTailNode, At, Begin, Idle
<1>3. next' = next /\ tail' = tail /\ head' = head /\ elem' = elem
  BY DEF ReadTailNode, Begin, vars
<1>4. r \in Local /\ r.sequence = local[t].sequence /\ r.node = tail.node /\ r.mine = local[t].mine
  <2>1. /\ local[t] \in Local
        /\ tail.sequence \in Int /\ head.sequence \in Int /\ tail.node \in Node /\ head.node \in Node
    BY Reads
  <2> QED BY <2>1 DEF Local, Where
<1>5. r.at = "append"
  <2>1. local[t] \in Local
    BY Reads
  <2> QED BY <2>1 DEF Local
<1>6. local'[t] = r
  BY <1>1, Reads
<1> HIDE DEF r
<1>7. SameRole(r, local[t])
  BY <1>2, <1>4, <1>5 DEF SameRole
<1>8. local[t].sequence <= tail.sequence
  BY <1>2, Reads DEF KnowsTail
<1>9. KnowsTail(t)'
  <2>1. local'[t].at = "append"
    BY <1>5, <1>6
  <2>2. local'[t].sequence <= tail'.sequence
    BY <1>3, <1>4, <1>6, <1>8
  <2>3. local'[t].node \in Node /\ local'[t].node = tail'.node
    BY <1>3, <1>4, <1>6, Reads
  <2> QED BY <2>1, <2>2, <2>3 DEF KnowsTail
<1>10. KnowsHead(t)'
  BY <1>5, <1>6 DEF KnowsHead
<1> QED BY <1>1, <1>2, <1>3, <1>4, <1>5, <1>7, <1>9, <1>10, Reads, QuietStep DEF ReadTailNode, Begin, vars

\* Helping it reads the link behind the node: if that is still m_Tail, to a node in the queue.
LEMMA HelpStep ==
  ASSUME NEW own, NEW pos, NEW older, Whole(own, pos, older), NEW t \in Thread, Help(t)
  PROVE  Whole(own, pos, older)'
<1> DEFINE r == [local[t] EXCEPT !.at = "help finish", !.next = next[local[t].node]]
<1>1. local' = [local EXCEPT ![t] = r]
  BY DEF Help, At, Goto, Return, Loop, Begin
<1>2. local[t].at = "help"
  BY DEF Help, At, Begin, Idle
<1>3. next' = next /\ tail' = tail /\ head' = head /\ elem' = elem
  BY DEF Help, Begin, vars
<1>4. r \in Local /\ r.sequence = local[t].sequence /\ r.node = local[t].node /\ r.mine = local[t].mine /\ r.next = next[local[t].node]
  <2>1. /\ local[t] \in Local
        /\ tail.sequence \in Int /\ head.sequence \in Int /\ tail.node \in Node /\ head.node \in Node
        /\ next[local[t].node] \in Node \cup {End, Null}
    BY <1>2, Reads DEF KnowsTail
  <2> QED BY <2>1 DEF Local, Where
<1>5. r.at = "help finish"
  <2>1. local[t] \in Local
    BY Reads
  <2> QED BY <2>1 DEF Local
<1>6. local'[t] = r
  BY <1>1, Reads
<1> HIDE DEF r
<1>7. SameRole(r, local[t])
  BY <1>2, <1>4, <1>5 DEF SameRole
<1>8. /\ local[t].sequence <= tail.sequence /\ local[t].node \in Node
      /\ local[t].sequence = tail.sequence => local[t].node = tail.node /\ next[local[t].node] # End
  BY <1>2, Reads DEF KnowsTail
<1>9. KnowsTail(t)'
  <2>1. local'[t].at = "help finish"
    BY <1>5, <1>6
  <2>2. local'[t].sequence <= tail'.sequence
    BY <1>3, <1>4, <1>6, <1>8
  <2>3. local'[t].node \in Node
    BY <1>4, <1>6, <1>8
  <2>4. local'[t].sequence = tail'.sequence => local'[t].node = tail'.node
    BY <1>3, <1>4, <1>6, <1>8
  <2>5. local'[t].sequence = tail'.sequence =>
          next'[local'[t].node] = local'[t].next /\ local'[t].next \in Node
    BY <1>3, <1>4, <1>6, <1>8, Reads, NextInQueue
  <2> QED BY <2>1, <2>2, <2>3, <2>4, <2>5 DEF KnowsTail
<1>10. KnowsHead(t)'
  BY <1>5, <1>6 DEF KnowsHead
<1> QED BY <1>1, <1>2, <1>3, <1>4, <1>5, <1>7, <1>9, <1>10, QuietStep DEF Help, Begin, vars

\* m_Tail moves on to that node.
LEMMA HelpFinishStep ==
  ASSUME NEW own, NEW pos, NEW older, Whole(own, pos, older), NEW t \in Thread, HelpFinish(t)
  PROVE  Whole(own, pos, older)'
<1> DEFINE r == [local[t] EXCEPT !.at = "tail sequence", !.next = Null]
<1>1. local' = [local EXCEPT ![t] = r]
  BY DEF HelpFinish, At, Goto, Return, Loop, Begin
<1>2. local[t].at = "help finish"
  BY DEF HelpFinish, At, Begin, Idle
<1>3. next' = next /\ head' = head /\ elem' = elem
  BY DEF HelpFinish, Begin, vars
<1>4. r \in Local /\ r.mine = local[t].mine
  <2>1. /\ local[t] \in Local
        /\ tail.sequence \in Int /\ head.sequence \in Int /\ tail.node \in Node /\ head.node \in Node
    BY Reads
  <2> QED BY <2>1 DEF Local, Where
<1>5. r.at = "tail sequence"
  <2>1. local[t] \in Local
    BY Reads
  <2> QED BY <2>1 DEF Local
<1>6. local'[t] = r
  BY <1>1, Reads
<1> HIDE DEF r
<1>7. SameRole(r, local[t])
  BY <1>2, <1>4, <1>5 DEF SameRole
<1>8. local[t].sequence = tail.sequence =>
        local[t].node = tail.node /\ local[t].next = next[tail.node] /\ local[t].next \in Node
  BY <1>2, Reads DEF KnowsTail
<1>9. KnowsTail(t)'
  BY <1>5, <1>6 DEF KnowsTail
<1>10. KnowsHead(t)'
  BY <1>5, <1>6 DEF KnowsHead
<1>11. tail' = tail \/ (tail' = Link(next[tail.node], tail.sequence + 1)
                           /\ next[tail.node] \in Node)
  <2>1. CASE tail = OldTail(t)
    <3>1. tail.sequence = local[t].sequence
      BY <2>1 DEF OldTail, Link
    <3>2. tail' = Link(local[t].next, tail.sequence + 1)
      BY <2>1 DEF HelpFinish, FinishPush
    <3> QED BY <1>8, <3>1, <3>2
  <2>2. CASE tail # OldTail(t)
    BY <2>2 DEF HelpFinish, FinishPush
  <2> QED BY <2>1, <2>2
<1> QED BY <1>1, <1>2, <1>3, <1>4, <1>5, <1>7, <1>9, <1>10, <1>11, QuietStep DEF HelpFinish, Begin, vars

\* m_Tail moves on to the node pushed, unless it has moved.
LEMMA FinishStep ==
  ASSUME NEW own, NEW pos, NEW older, Whole(own, pos, older), NEW t \in Thread, Finish(t)
  PROVE  Whole(own, pos, older)'
<1> DEFINE r == [local[t] EXCEPT !.at = "count"]
<1>1. local' = [local EXCEPT ![t] = r]
  BY DEF Finish, At, Goto, Return, Loop, Begin
<1>2. local[t].at = "finish"
  BY DEF Finish, At, Begin, Idle
<1>3. next' = next /\ head' = head /\ elem' = elem
  BY DEF Finish, Begin, vars
<1>4. r \in Local
  <2>1. /\ local[t] \in Local
        /\ tail.sequence \in Int /\ head.sequence \in Int /\ tail.node \in Node /\ head.node \in Node
    BY Reads
  <2> QED BY <2>1 DEF Local, Where
<1>5. r.at = "count"
  <2>1. local[t] \in Local
    BY Reads
  <2> QED BY <2>1 DEF Local
<1>6. local'[t] = r
  BY <1>1, Reads
<1> HIDE DEF r
<1>7. SameRole(r, local[t])
  BY <1>2, <1>4, <1>5 DEF SameRole
<1>8. local[t].mine \in Node /\ (local[t].sequence = tail.sequence =>
        local[t].node = tail.node /\ local[t].mine = next[tail.node])
  BY <1>2, Reads DEF KnowsTail
<1>9. KnowsTail(t)'
  BY <1>5, <1>6 DEF KnowsTail
<1>10. KnowsHead(t)'
  BY <1>5, <1>6 DEF KnowsHead
<1>11. tail' = tail \/ (tail' = Link(next[tail.node], tail.sequence + 1)
                           /\ next[tail.node] \in Node)
  <2>1. CASE tail = OldTail(t)
    <3>1. tail.sequence = local[t].sequence
      BY <2>1 DEF OldTail, Link
    <3>2. tail' = Link(local[t].mine, tail.sequence + 1)
      BY <2>1 DEF Finish, FinishPush
    <3> QED BY <1>8, <3>1, <3>2
  <2>2. CASE tail # OldTail(t)
    BY <2>2 DEF Finish, FinishPush
  <2> QED BY <2>1, <2>2
<1> QED BY <1>1, <1>2, <1>3, <1>4, <1>5, <1>7, <1>9, <1>10, <1>11, QuietStep DEF Finish, Begin, vars

-----------------------------------------------------------------------------
(* Steps of a pop that leave m_Head alone, and of a push that finds another's node *)

\* The loop of PopItem begins with the sequence number of m_Head, at the first time
LEMMA PopItemStep ==
  ASSUME NEW own, NEW pos, NEW older, Whole(own, pos, older), NEW t \in Thread, PopItem(t)
  PROVE  Whole(own, pos, older)'
<1> DEFINE r == [Returned(Null) EXCEPT !.at = "head node", !.sequence = head.sequence]
<1>1. local' = [local EXCEPT ![t] = r]
  BY DEF PopItem, At, Goto, Return, Loop, Begin
<1>2. local[t].at = "idle"
  BY DEF PopItem, At, Begin, Idle
<1>3. next' = next /\ tail' = tail /\ head' = head /\ elem' = elem
  BY DEF PopItem, Begin, vars
<1>4. r \in Local /\ r.sequence = head.sequence
  <2>1. head.sequence \in Int
    BY Reads
  <2> QED BY <2>1, LoopLocal
<1>5. r.at = "head node"
  <2>1. head.sequence \in Int
    BY Reads
  <2> QED BY <2>1, LoopLocal
<1>6. local'[t] = r
  BY <1>1, Reads
<1> HIDE DEF r
<1>7. SameRole(r, local[t])
  BY <1>2, <1>4, <1>5 DEF SameRole
<1>9. KnowsTail(t)'
  BY <1>5, <1>6 DEF KnowsTail
<1>10. KnowsHead(t)'
  <2>1. local'[t].at = "head node"
    BY <1>5, <1>6
  <2>2. local'[t].sequence <= head'.sequence
    BY <1>3, <1>4, <1>6, Reads
  <2> QED BY <2>1, <2>2 DEF KnowsHead
<1> QED BY <1>1, <1>2, <1>3, <1>4, <1>5, <1>7, <1>9, <1>10, QuietStep DEF PopItem, Begin, vars

\* The loop of PopItem begins once more.
LEMMA AgainStep ==
  ASSUME NEW own, NEW pos, NEW older, Whole(own, pos, older), NEW t \in Thread, Again(t)
  PROVE  Whole(own, pos, older)'
<1> DEFINE r == [Returned(Null) EXCEPT !.at = "head node", !.sequence = head.sequence]
<1>1. local' = [local EXCEPT ![t] = r]
  BY DEF Again, At, Goto, Return, Loop, Begin
<1>2. local[t].at = "again"
  BY DEF Again, At, Begin, Idle
<1>3. next' = next /\ tail' = tail /\ head' = head /\ elem' = elem
  BY DEF Again, Begin, vars
<1>4. r \in Local /\ r.sequence = head.sequence
  <2>1. head.sequence \in Int
    BY Reads
  <2> QED BY <2>1, LoopLocal
<1>5. r.at = "head node"
  <2>1. head.sequence \in Int
    BY Reads
  <2> QED BY <2>1, LoopLocal
<1>6. local'[t] = r
  BY <1>1, Reads
<1> HIDE DEF r
<1>7. SameRole(r, local[t])
  BY <1>2, <1>4, <1>5 DEF SameRole
<1>9. KnowsTail(t)'
  BY <1>5, <1>6 DEF KnowsTail
<1>10. KnowsHead(t)'
  <2>1. local'[t].at = "head node"
    BY <1>5, <1>6
  <2>2. local'[t].sequence <= head'.sequence
    BY <1>3, <1>4, <1>6, Reads
  <2> QED BY <2>1, <2>2 DEF KnowsHead
<1> QED BY <1>1, <1>2, <1>3, <1>4, <1>5, <1>7, <1>9, <1>10, QuietStep DEF Again, Begin, vars

\* The node is read after the number.
LEMMA ReadHeadNodeStep ==
  ASSUME NEW own, NEW pos, NEW older, Whole(own, pos, older), NEW t \in Thread, ReadHeadNode(t)
  PROVE  Whole(own, pos, older)'
<1> DEFINE r == [local[t] EXCEPT !.at = "pop tail sequence", !.node = head.node]
<1>1. local' = [local EXCEPT ![t] = r]
  BY DEF ReadHeadNode, At, Goto, Return, Loop, Begin
<1>2. local[t].at = "head node"
  BY DEF ReadHeadNode, At, Begin, Idle
<1>3. next' = next /\ tail' = tail /\ head' = head /\ elem' = elem
  BY DEF ReadHeadNode, Begin, vars
<1>4. r \in Local /\ r.node = head.node /\ r.sequence = local[t].sequence
  <2>1. /\ local[t] \in Local
        /\ tail.sequence \in Int /\ head.sequence \in Int /\ tail.node \in Node /\ head.node \in Node
    BY Reads
  <2> QED BY <2>1 DEF Local, Where
<1>5. r.at = "pop tail sequence"
  <2>1. local[t] \in Local
    BY Reads
  <2> QED BY <2>1 DEF Local
<1>6. local'[t] = r
  BY <1>1, Reads
<1> HIDE DEF r
<1>7. SameRole(r, local[t])
  BY <1>2, <1>4, <1>5 DEF SameRole
<1>8. /\ local[t].sequence <= head.sequence
  BY <1>2, Reads DEF KnowsHead
<1>9. KnowsTail(t)'
  BY <1>5, <1>6 DEF KnowsTail
<1>10. KnowsHead(t)'
  <2>1. local'[t].at = "pop tail sequence"
    BY <1>5, <1>6
  <2>2. local'[t].sequence <= head'.sequence
    BY <1>3, <1>4, <1>6, <1>8
  <2>3. local'[t].node \in Node /\ local'[t].node = head'.node
    BY <1>3, <1>4, <1>6, Reads
  <2> QED BY <2>1, <2>2, <2>3 DEF KnowsHead
<1> QED BY <1>1, <1>2, <1>3, <1>4, <1>5, <1>7, <1>9, <1>10, QuietStep DEF ReadHeadNode, Begin, vars

\* The sequence number of m_Tail is read last.
LEMMA ReadPopTailSequenceStep ==
  ASSUME NEW own, NEW pos, NEW older, Whole(own, pos, older), NEW t \in Thread, ReadPopTailSequence(t)
  PROVE  Whole(own, pos, older)'
<1> DEFINE r == [local[t] EXCEPT !.at = "next", !.tailSequence = tail.sequence]
<1>1. local' = [local EXCEPT ![t] = r]
  BY DEF ReadPopTailSequence, At, Goto, Return, Loop, Begin
<1>2. local[t].at = "pop tail sequence"
  BY DEF ReadPopTailSequence, At, Begin, Idle
<1>3. next' = next /\ tail' = tail /\ head' = head /\ elem' = elem
  BY DEF ReadPopTailSequence, Begin, vars
<1>4. r \in Local /\ r.tailSequence = tail.sequence /\ r.sequence = local[t].sequence /\ r.node = local[t].node
  <2>1. /\ local[t] \in Local
        /\ tail.sequence \in Int /\ head.sequence \in Int /\ tail.node \in Node /\ head.node \in Node
    BY Reads
  <2> QED BY <2>1 DEF Local, Where
<1>5. r.at = "next"
  <2>1. local[t] \in Local
    BY Reads
  <2> QED BY <2>1 DEF Local
<1>6. local'[t] = r
  BY <1>1, Reads
<1> HIDE DEF r
<1>7. SameRole(r, local[t])
  BY <1>2, <1>4, <1>5 DEF SameRole
<1>8. /\ local[t].sequence <= head.sequence
      /\ local[t].node \in Node /\ (local[t].sequence = head.sequence => local[t].node = head.node)
  BY <1>2, Reads DEF KnowsHead
<1>9. KnowsTail(t)'
  BY <1>5, <1>6 DEF KnowsTail
<1>10. KnowsHead(t)'
  <2>1. local'[t].at = "next"
    BY <1>5, <1>6
  <2>2. local'[t].sequence <= head'.sequence
    BY <1>3, <1>4, <1>6, <1>8
  <2>3. local'[t].node \in Node
    BY <1>3, <1>4, <1>6, <1>8
  <2>4. local'[t].sequence = head'.sequence => local'[t].node = head'.node
    BY <1>3, <1>4, <1>6, <1>8
  <2>5. local'[t].tailSequence <= tail'.sequence
    BY <1>3, <1>4, <1>6, Reads
  <2> QED BY <2>1, <2>2, <2>3, <2>4, <2>5 DEF KnowsHead
<1> QED BY <1>1, <1>2, <1>3, <1>4, <1>5, <1>7, <1>9, <1>10, QuietStep DEF ReadPopTailSequence, Begin, vars

\* Then the link of the node.
LEMMA ReadNextStep ==
  ASSUME NEW own, NEW pos, NEW older, Whole(own, pos, older), NEW t \in Thread, ReadNext(t)
  PROVE  Whole(own, pos, older)'
<1> DEFINE r == [local[t] EXCEPT !.at = "recheck", !.next = next[local[t].node]]
<1>1. local' = [local EXCEPT ![t] = r]
  BY DEF ReadNext, At, Goto, Return, Loop, Begin
<1>2. local[t].at = "next"
  BY DEF ReadNext, At, Begin, Idle
<1>3. next' = next /\ tail' = tail /\ head' = head /\ elem' = elem
  BY DEF ReadNext, Begin, vars
<1>4. r \in Local /\ r.next = next[local[t].node] /\ r.sequence = local[t].sequence /\ r.node = local[t].node /\ r.tailSequence = local[t].tailSequence
  <2>1. /\ local[t] \in Local
        /\ tail.sequence \in Int /\ head.sequence \in Int /\ tail.node \in Node /\ head.node \in Node
        /\ next[local[t].node] \in Node \cup {End, Null}
    BY <1>2, Reads DEF KnowsHead
  <2> QED BY <2>1 DEF Local, Where
<1>5. r.at = "recheck"
  <2>1. local[t] \in Local
    BY Reads
  <2> QED BY <2>1 DEF Local
<1>6. local'[t] = r
  BY <1>1, Reads
<1> HIDE DEF r
<1>7. SameRole(r, local[t])
  BY <1>2, <1>4, <1>5 DEF SameRole
<1>8. /\ local[t].sequence <= head.sequence
      /\ local[t].node \in Node /\ (local[t].sequence = head.sequence => local[t].node = head.node)
      /\ local[t].tailSequence <= tail.sequence
  BY <1>2, Reads DEF KnowsHead
<1>9. KnowsTail(t)'
  BY <1>5, <1>6 DEF KnowsTail
<1>10. KnowsHead(t)'
  <2>1. local'[t].at = "recheck"
    BY <1>5, <1>6
  <2>2. local'[t].sequence <= head'.sequence
    BY <1>3, <1>4, <1>6, <1>8
  <2>3. local'[t].node \in Node
    BY <1>3, <1>4, <1>6, <1>8
  <2>4. local'[t].sequence = head'.sequence => local'[t].node = head'.node
    BY <1>3, <1>4, <1>6, <1>8
  <2>5. local'[t].tailSequence <= tail'.sequence
    BY <1>3, <1>4, <1>6, <1>8
  <2>6. next'[local'[t].node] = local'[t].next
    BY <1>3, <1>4, <1>6, <1>8
  <2> QED BY <2>1, <2>2, <2>3, <2>4, <2>5, <2>6 DEF KnowsHead
<1> QED BY <1>1, <1>2, <1>3, <1>4, <1>5, <1>7, <1>9, <1>10, QuietStep DEF ReadNext, Begin, vars

\* The link counts only if m_Head has not moved since.
LEMMA RecheckStep ==
  ASSUME NEW own, NEW pos, NEW older, Whole(own, pos, older), NEW t \in Thread, Recheck(t)
  PROVE  Whole(own, pos, older)'
<1>1. CASE local[t].next = Null \/ head.sequence # local[t].sequence
  <2> DEFINE r == [local[t] EXCEPT !.at = "again"]
  <2>1. local' = [local EXCEPT ![t] = r]
    BY <1>1 DEF Recheck, At, Goto, Return, Loop, Begin
  <2>2. local[t].at = "recheck"
    BY DEF Recheck, At, Begin, Idle
  <2>3. next' = next /\ tail' = tail /\ head' = head /\ elem' = elem
    BY <1>1 DEF Recheck, Begin, vars
  <2>4. r \in Local
    <3>1. /\ local[t] \in Local
          /\ tail.sequence \in Int /\ head.sequence \in Int /\ tail.node \in Node /\ head.node \in Node
      BY <1>1, Reads
    <3> QED BY <3>1 DEF Local, Where
  <2>5. r.at = "again"
    <3>1. local[t] \in Local
      BY Reads
    <3> QED BY <3>1 DEF Local
  <2>6. local'[t] = r
    BY <2>1, Reads
  <2> HIDE DEF r
  <2>7. SameRole(r, local[t])
    BY <2>2, <2>4, <2>5 DEF SameRole
  <2>9. KnowsTail(t)'
    BY <2>5, <2>6 DEF KnowsTail
  <2>10. KnowsHead(t)'
    BY <2>5, <2>6 DEF KnowsHead
  <2> QED BY <2>1, <2>2, <2>3, <2>4, <2>5, <2>7, <2>9, <2>10, QuietStep DEF Recheck, Begin, vars
<1>2. CASE ~(local[t].next = Null \/ head.sequence # local[t].sequence)
  <2> DEFINE r == [local[t] EXCEPT !.at = "compare"]
  <2>1. local' = [local EXCEPT ![t] = r]
    BY <1>2 DEF Recheck, At, Goto, Return, Loop, Begin
  <2>2. local[t].at = "recheck"
    BY DEF Recheck, At, Begin, Idle
  <2>3. next' = next /\ tail' = tail /\ head' = head /\ elem' = elem
    BY <1>2 DEF Recheck, Begin, vars
  <2>4. r \in Local /\ r.sequence = local[t].sequence /\ r.node = local[t].node /\ r.tailSequence = local[t].tailSequence /\ r.next = local[t].next
    <3>1. /\ local[t] \in Local
          /\ tail.sequence \in Int /\ head.sequence \in Int /\ tail.node \in Node /\ head.node \in Node
      BY <1>2, Reads
    <3> QED BY <3>1 DEF Local, Where
  <2>5. r.at = "compare"
    <3>1. local[t] \in Local
      BY Reads
    <3> QED BY <3>1 DEF Local
  <2>6. local'[t] = r
    BY <2>1, Reads
  <2> HIDE DEF r
  <2>7. SameRole(r, local[t])
    BY <2>2, <2>4, <2>5 DEF SameRole
  <2>8. /\ local[t].sequence <= head.sequence
        /\ local[t].node \in Node /\ (local[t].sequence = head.sequence => local[t].node = head.node)
        /\ local[t].tailSequence <= tail.sequence
        /\ (local[t].tailSequence = tail.sequence /\ tail.node = local[t].node /\ local[t].next \in Node
           => next[local[t].node] = local[t].next)
        /\ (local[t].sequence = head.sequence /\ local[t].next \in Node
           => next[local[t].node] = local[t].next)
    BY <2>2, Reads DEF KnowsHead
  <2>9. KnowsTail(t)'
    BY <2>5, <2>6 DEF KnowsTail
  <2>10. KnowsHead(t)'
    <3>1. local'[t].at = "compare"
      BY <2>5, <2>6
    <3>2. local'[t].sequence <= head'.sequence
      BY <2>3, <2>4, <2>6, <2>8
    <3>3. local'[t].node \in Node
      BY <2>3, <2>4, <2>6, <2>8
    <3>4. local'[t].sequence = head'.sequence => local'[t].node = head'.node
      BY <2>3, <2>4, <2>6, <2>8
    <3>5. local'[t].tailSequence <= tail'.sequence
      BY <2>3, <2>4, <2>6, <2>8
    <3>6. local'[t].tailSequence = tail'.sequence /\ tail'.node = local'[t].node /\ local'[t].next \in Node
            => next'[local'[t].node] = local'[t].next
      BY <2>3, <2>4, <2>6, <2>8
    <3>7. local'[t].sequence = head'.sequence /\ local'[t].next \in Node
            => next'[local'[t].node] = local'[t].next
      BY <2>3, <2>4, <2>6, <2>8
    <3>8. local'[t].next # Null
      BY <2>4, <2>6, <1>2
    <3> QED BY <3>1, <3>2, <3>3, <3>4, <3>5, <3>6, <3>7, <3>8 DEF KnowsHead
  <2> QED BY <2>1, <2>2, <2>3, <2>4, <2>5, <2>7, <2>9, <2>10, QuietStep DEF Recheck, Begin, vars
<1> QED BY <1>1, <1>2

\* The queue is empty, or m_Tail is behind, or there is a node to take.
LEMMA CompareStep ==
  ASSUME NEW own, NEW pos, NEW older, Whole(own, pos, older), NEW t \in Thread, Compare(t)
  PROVE  Whole(own, pos, older)'
<1>1. CASE tail.node = local[t].node /\ local[t].next = End
  <2> DEFINE r == Returned("empty")
  <2>1. local' = [local EXCEPT ![t] = r]
    BY <1>1 DEF Compare, At, Goto, Return, Loop, Begin
  <2>2. local[t].at = "compare"
    BY DEF Compare, At, Begin, Idle
  <2>3. next' = next /\ tail' = tail /\ head' = head /\ elem' = elem
    BY <1>1 DEF Compare, Begin, vars
  <2>4. r \in Local
    BY ReturnedLocal
  <2>5. r.at = "idle"
    BY ReturnedLocal
  <2>6. local'[t] = r
    BY <2>1, Reads
  <2> HIDE DEF r
  <2>7. SameRole(r, local[t])
    BY <2>2, <2>4, <2>5 DEF SameRole
  <2>9. KnowsTail(t)'
    BY <2>5, <2>6 DEF KnowsTail
  <2>10. KnowsHead(t)'
    BY <2>5, <2>6 DEF KnowsHead
  <2> QED BY <2>1, <2>2, <2>3, <2>4, <2>5, <2>7, <2>9, <2>10, QuietStep DEF Compare, Begin, vars
<1>2. CASE tail.node = local[t].node /\ local[t].next # End
  <2> DEFINE r == [local[t] EXCEPT !.at = "pop help"]
  <2>1. local' = [local EXCEPT ![t] = r]
    BY <1>2 DEF Compare, At, Goto, Return, Loop, Begin
  <2>2. local[t].at = "compare"
    BY DEF Compare, At, Begin, Idle
  <2>3. next' = next /\ tail' = tail /\ head' = head /\ elem' = elem
    BY <1>2 DEF Compare, Begin, vars
  <2>4. r \in Local /\ r.sequence = local[t].sequence /\ r.node = local[t].node /\ r.tailSequence = local[t].tailSequence /\ r.next = local[t].next
    <3>1. /\ local[t] \in Local
          /\ tail.sequence \in Int /\ head.sequence \in Int /\ tail.node \in Node /\ head.node \in Node
      BY <1>2, Reads
    <3> QED BY <3>1 DEF Local, Where
  <2>5. r.at = "pop help"
    <3>1. local[t] \in Local
      BY Reads
    <3> QED BY <3>1 DEF Local
  <2>6. local'[t] = r
    BY <2>1, Reads
  <2> HIDE DEF r
  <2>7. SameRole(r, local[t])
    BY <2>2, <2>4, <2>5 DEF SameRole
  <2>8. /\ local[t].sequence <= head.sequence
        /\ local[t].node \in Node /\ (local[t].sequence = head.sequence => local[t].node = head.node)
        /\ local[t].tailSequence <= tail.sequence
        /\ (local[t].tailSequence = tail.sequence /\ tail.node = local[t].node /\ local[t].next \in Node
           => next[local[t].node] = local[t].next)
        /\ local[t].next # Null
    BY <2>2, Reads DEF KnowsHead
  <2>9. KnowsTail(t)'
    BY <2>5, <2>6 DEF KnowsTail
  <2>10. KnowsHead(t)'
    <3>1. local'[t].at = "pop help"
      BY <2>5, <2>6
    <3>2. local'[t].sequence <= head'.sequence
      BY <2>3, <2>4, <2>6, <2>8
    <3>3. local'[t].node \in Node
      BY <2>3, <2>4, <2>6, <2>8
    <3>4. local'[t].sequence = head'.sequence => local'[t].node = head'.node
      BY <2>3, <2>4, <2>6, <2>8
    <3>5. local'[t].tailSequence <= tail'.sequence
      BY <2>3, <2>4, <2>6, <2>8
    <3>6. local'[t].tailSequence = tail'.sequence /\ tail'.node = local'[t].node /\ local'[t].next \in Node
            => next'[local'[t].node] = local'[t].next
      BY <2>3, <2>4, <2>6, <2>8
    <3>7. local'[t].next \in Node
      BY <2>4, <2>6, <2>8, <1>2, Reads
    <3> QED BY <3>1, <3>2, <3>3, <3>4, <3>5, <3>6, <3>7 DEF KnowsHead
  <2> QED BY <2>1, <2>2, <2>3, <2>4, <2>5, <2>7, <2>9, <2>10, QuietStep DEF Compare, Begin, vars
<1>3. CASE tail.node # local[t].node /\ local[t].next = End
  <2> DEFINE r == [local[t] EXCEPT !.at = "again"]
  <2>1. local' = [local EXCEPT ![t] = r]
    BY <1>3 DEF Compare, At, Goto, Return, Loop, Begin
  <2>2. local[t].at = "compare"
    BY DEF Compare, At, Begin, Idle
  <2>3. next' = next /\ tail' = tail /\ head' = head /\ elem' = elem
    BY <1>3 DEF Compare, Begin, vars
  <2>4. r \in Local
    <3>1. /\ local[t] \in Local
          /\ tail.sequence \in Int /\ head.sequence \in Int /\ tail.node \in Node /\ head.node \in Node
      BY <1>3, Reads
    <3> QED BY <3>1 DEF Local, Where
  <2>5. r.at = "again"
    <3>1. local[t] \in Local
      BY Reads
    <3> QED BY <3>1 DEF Local
  <2>6. local'[t] = r
    BY <2>1, Reads
  <2> HIDE DEF r
  <2>7. SameRole(r, local[t])
    BY <2>2, <2>4, <2>5 DEF SameRole
  <2>9. KnowsTail(t)'
    BY <2>5, <2>6 DEF KnowsTail
  <2>10. KnowsHead(t)'
    BY <2>5, <2>6 DEF KnowsHead
  <2> QED BY <2>1, <2>2, <2>3, <2>4, <2>5, <2>7, <2>9, <2>10, QuietStep DEF Compare, Begin, vars
<1>4. CASE tail.node # local[t].node /\ local[t].next # End
  <2> DEFINE r == [local[t] EXCEPT !.at = "element"]
  <2>1. local' = [local EXCEPT ![t] = r]
    BY <1>4 DEF Compare, At, Goto, Return, Loop, Begin
  <2>2. local[t].at = "compare"
    BY DEF Compare, At, Begin, Idle
  <2>3. next' = next /\ tail' = tail /\ head' = head /\ elem' = elem
    BY <1>4 DEF Compare, Begin, vars
  <2>4. r \in Local /\ r.sequence = local[t].sequence /\ r.node = local[t].node /\ r.next = local[t].next
    <3>1. /\ local[t] \in Local
          /\ tail.sequence \in Int /\ head.sequence \in Int /\ tail.node \in Node /\ head.node \in Node
      BY <1>4, Reads
    <3> QED BY <3>1 DEF Local, Where
  <2>5. r.at = "element"
    <3>1. local[t] \in Local
      BY Reads
    <3> QED BY <3>1 DEF Local
  <2>6. local'[t] = r
    BY <2>1, Reads
  <2> HIDE DEF r
  <2>7. SameRole(r, local[t])
    BY <2>2, <2>4, <2>5 DEF SameRole
  <2>8. /\ local[t].sequence <= head.sequence
        /\ local[t].node \in Node /\ (local[t].sequence = head.sequence => local[t].node = head.node)
        /\ (local[t].sequence = head.sequence /\ local[t].next \in Node
           => next[local[t].node] = local[t].next)
        /\ local[t].next # Null
    BY <2>2, Reads DEF KnowsHead
  <2>9. KnowsTail(t)'
    BY <2>5, <2>6 DEF KnowsTail
  <2>10. KnowsHead(t)'
    <3>1. local'[t].at = "element"
      BY <2>5, <2>6
    <3>2. local'[t].sequence <= head'.sequence
      BY <2>3, <2>4, <2>6, <2>8
    <3>3. local'[t].node \in Node
      BY <2>3, <2>4, <2>6, <2>8
    <3>4. local'[t].sequence = head'.sequence => local'[t].node = head'.node
      BY <2>3, <2>4, <2>6, <2>8
    <3>5. local'[t].sequence = head'.sequence /\ local'[t].next \in Node
            => next'[local'[t].node] = local'[t].next
      BY <2>3, <2>4, <2>6, <2>8
    <3>6. local'[t].next \in Node
      BY <2>4, <2>6, <2>8, <1>4, Reads
    <3>7. local'[t].sequence = head'.sequence => tail'.node # local'[t].node
      BY <2>3, <2>4, <2>6, <1>4
    <3> QED BY <3>1, <3>2, <3>3, <3>4, <3>5, <3>6, <3>7 DEF KnowsHead
  <2> QED BY <2>1, <2>2, <2>3, <2>4, <2>5, <2>7, <2>9, <2>10, QuietStep DEF Compare, Begin, vars
<1> QED BY <1>1, <1>2, <1>3, <1>4

\* A thread that pops helps m_Tail on as well, by the number it read before the link.
LEMMA PopHelpStep ==
  ASSUME NEW own, NEW pos, NEW older, Whole(own, pos, older), NEW t \in Thread, PopHelp(t)
  PROVE  Whole(own, pos, older)'
<1> DEFINE r == [local[t] EXCEPT !.at = "again"]
<1>1. local' = [local EXCEPT ![t] = r]
  BY DEF PopHelp, At, Goto, Return, Loop, Begin
<1>2. local[t].at = "pop help"
  BY DEF PopHelp, At, Begin, Idle
<1>3. next' = next /\ head' = head /\ elem' = elem
  BY DEF PopHelp, Begin, vars
<1>4. r \in Local
  <2>1. /\ local[t] \in Local
        /\ tail.sequence \in Int /\ head.sequence \in Int /\ tail.node \in Node /\ head.node \in Node
    BY Reads
  <2> QED BY <2>1 DEF Local, Where
<1>5. r.at = "again"
  <2>1. local[t] \in Local
    BY Reads
  <2> QED BY <2>1 DEF Local
<1>6. local'[t] = r
  BY <1>1, Reads
<1> HIDE DEF r
<1>7. SameRole(r, local[t])
  BY <1>2, <1>4, <1>5 DEF SameRole
<1>8. /\ local[t].next \in Node
      /\ (local[t].tailSequence = tail.sequence /\ tail.node = local[t].node /\ local[t].next \in Node
         => next[local[t].node] = local[t].next)
  BY <1>2, Reads DEF KnowsHead
<1>9. KnowsTail(t)'
  BY <1>5, <1>6 DEF KnowsTail
<1>10. KnowsHead(t)'
  BY <1>5, <1>6 DEF KnowsHead
<1>11. tail' = tail \/ (tail' = Link(next[tail.node], tail.sequence + 1)
                           /\ next[tail.node] \in Node)
  <2> DEFINE old == Link(local[t].node, local[t].tailSequence)
  <2>1. CASE tail = old
    <3>1. tail.sequence = local[t].tailSequence /\ tail.node = local[t].node
      BY <2>1 DEF Link
    <3>2. tail' = Link(local[t].next, tail.sequence + 1)
      BY <2>1 DEF PopHelp, FinishPush
    <3>3. next[tail.node] = local[t].next /\ local[t].next \in Node
      BY <1>8, <3>1
    <3> QED BY <3>2, <3>3
  <2>2. CASE tail # old
    BY <2>2 DEF PopHelp, FinishPush
  <2> QED BY <2>1, <2>2
<1> QED BY <1>1, <1>2, <1>3, <1>4, <1>5, <1>7, <1>9, <1>10, <1>11, QuietStep DEF PopHelp, Begin, vars

\* The item is read before m_Head is moved.
LEMMA ReadElementStep ==
  ASSUME NEW own, NEW pos, NEW older, Whole(own, pos, older), NEW t \in Thread, ReadElement(t)
  PROVE  Whole(own, pos, older)'
<1> DEFINE r == [local[t] EXCEPT !.at = "advance", !.elem = elem[local[t].next]]
<1>1. local' = [local EXCEPT ![t] = r]
  BY DEF ReadElement, At, Goto, Return, Loop, Begin
<1>2. local[t].at = "element"
  BY DEF ReadElement, At, Begin, Idle
<1>3. next' = next /\ tail' = tail /\ head' = head /\ elem' = elem
  BY DEF ReadElement, Begin, vars
<1>4. r \in Local /\ r.sequence = local[t].sequence /\ r.node = local[t].node /\ r.next = local[t].next /\ r.elem = elem[local[t].next]
  <2>1. /\ local[t] \in Local
        /\ tail.sequence \in Int /\ head.sequence \in Int /\ tail.node \in Node /\ head.node \in Node
        /\ elem[local[t].next] \in Item \cup {Null}
    BY <1>2, Reads DEF KnowsHead
  <2> QED BY <2>1 DEF Local, Where
<1>5. r.at = "advance"
  <2>1. local[t] \in Local
    BY Reads
  <2> QED BY <2>1 DEF Local
<1>6. local'[t] = r
  BY <1>1, Reads
<1> HIDE DEF r
<1>7. SameRole(r, local[t])
  BY <1>2, <1>4, <1>5 DEF SameRole
<1>8. /\ local[t].sequence <= head.sequence
      /\ local[t].node \in Node /\ (local[t].sequence = head.sequence => local[t].node = head.node)
      /\ (local[t].sequence = head.sequence /\ local[t].next \in Node
         => next[local[t].node] = local[t].next)
      /\ local[t].next \in Node
      /\ (local[t].sequence = head.sequence => tail.node # local[t].node)
  BY <1>2, Reads DEF KnowsHead
<1>9. KnowsTail(t)'
  BY <1>5, <1>6 DEF KnowsTail
<1>10. KnowsHead(t)'
  <2>1. local'[t].at = "advance"
    BY <1>5, <1>6
  <2>2. local'[t].sequence <= head'.sequence
    BY <1>3, <1>4, <1>6, <1>8
  <2>3. local'[t].node \in Node
    BY <1>3, <1>4, <1>6, <1>8
  <2>4. local'[t].sequence = head'.sequence => local'[t].node = head'.node
    BY <1>3, <1>4, <1>6, <1>8
  <2>5. local'[t].sequence = head'.sequence /\ local'[t].next \in Node
          => next'[local'[t].node] = local'[t].next
    BY <1>3, <1>4, <1>6, <1>8
  <2>6. local'[t].next \in Node
    BY <1>3, <1>4, <1>6, <1>8
  <2>7. local'[t].sequence = head'.sequence => tail'.node # local'[t].node
    BY <1>3, <1>4, <1>6, <1>8
  <2>8. local'[t].elem = elem'[local'[t].next]
    BY <1>3, <1>4, <1>6, <1>8
  <2> QED BY <2>1, <2>2, <2>3, <2>4, <2>5, <2>6, <2>7, <2>8 DEF KnowsHead
<1> QED BY <1>1, <1>2, <1>3, <1>4, <1>5, <1>7, <1>9, <1>10, QuietStep DEF ReadElement, Begin, vars

\* m_Head has moved, and the loop begins again.
LEMMA AdvanceAgain ==
  ASSUME NEW own, NEW pos, NEW older, Whole(own, pos, older), NEW t \in Thread, Advance(t),
         head # Link(local[t].node, local[t].sequence)
  PROVE  Whole(own, pos, older)'
<1> DEFINE r == [local[t] EXCEPT !.at = "again"]
<1>1. local' = [local EXCEPT ![t] = r]
  BY DEF Advance, At, Goto, Return, Loop, Begin
<1>2. local[t].at = "advance"
  BY DEF Advance, At, Begin, Idle
<1>3. next' = next /\ tail' = tail /\ head' = head /\ elem' = elem
  BY DEF Advance, Begin, vars
<1>4. r \in Local
  <2>1. /\ local[t] \in Local
        /\ tail.sequence \in Int /\ head.sequence \in Int /\ tail.node \in Node /\ head.node \in Node
    BY Reads
  <2> QED BY <2>1 DEF Local, Where
<1>5. r.at = "again"
  <2>1. local[t] \in Local
    BY Reads
  <2> QED BY <2>1 DEF Local
<1>6. local'[t] = r
  BY <1>1, Reads
<1> HIDE DEF r
<1>7. SameRole(r, local[t])
  BY <1>2, <1>4, <1>5 DEF SameRole
<1>9. KnowsTail(t)'
  BY <1>5, <1>6 DEF KnowsTail
<1>10. KnowsHead(t)'
  BY <1>5, <1>6 DEF KnowsHead
<1> QED BY <1>1, <1>2, <1>3, <1>4, <1>5, <1>7, <1>9, <1>10, QuietStep DEF Advance, Begin, vars

\* There is a node behind the one read, and m_Tail is helped on.
LEMMA AppendHelps ==
  ASSUME NEW own, NEW pos, NEW older, Whole(own, pos, older), NEW t \in Thread, Append(t),
         next[local[t].node] # End
  PROVE  Whole(own, pos, older)'
<1> DEFINE r == [local[t] EXCEPT !.at = "help"]
<1>1. local' = [local EXCEPT ![t] = r]
  BY DEF Append, At, Goto, Return, Loop, Begin
<1>2. local[t].at = "append"
  BY DEF Append, At, Begin, Idle
<1>3. next' = next /\ tail' = tail /\ head' = head /\ elem' = elem
  BY DEF Append, Begin, vars
<1>4. r \in Local /\ r.sequence = local[t].sequence /\ r.node = local[t].node /\ r.mine = local[t].mine
  <2>1. /\ local[t] \in Local
        /\ tail.sequence \in Int /\ head.sequence \in Int /\ tail.node \in Node /\ head.node \in Node
    BY Reads
  <2> QED BY <2>1 DEF Local, Where
<1>5. r.at = "help"
  <2>1. local[t] \in Local
    BY Reads
  <2> QED BY <2>1 DEF Local
<1>6. local'[t] = r
  BY <1>1, Reads
<1> HIDE DEF r
<1>7. SameRole(r, local[t])
  BY <1>2, <1>4, <1>5 DEF SameRole
<1>8. /\ local[t].sequence <= tail.sequence /\ local[t].node \in Node
      /\ local[t].sequence = tail.sequence => local[t].node = tail.node
  BY <1>2, Reads DEF KnowsTail
<1>9. KnowsTail(t)'
  <2>1. local'[t].at = "help"
    BY <1>5, <1>6
  <2>2. local'[t].sequence <= tail'.sequence
    BY <1>3, <1>4, <1>6, <1>8
  <2>3. local'[t].node \in Node
    BY <1>3, <1>4, <1>6, <1>8
  <2>4. local'[t].sequence = tail'.sequence => local'[t].node = tail'.node
    BY <1>3, <1>4, <1>6, <1>8
  <2>5. next'[local'[t].node] # End
    BY <1>3, <1>4, <1>6, <1>8
  <2> QED BY <2>1, <2>2, <2>3, <2>4, <2>5 DEF KnowsTail
<1>10. KnowsHead(t)'
  BY <1>5, <1>6 DEF KnowsHead
<1> QED BY <1>1, <1>2, <1>3, <1>4, <1>5, <1>7, <1>9, <1>10, QuietStep DEF Append, Begin, vars

-----------------------------------------------------------------------------
(* The counts *)

\* The sets counted are finite.
LEMMA FiniteCounts ==
  ASSUME Types
  PROVE  /\ IsFiniteSet(Waiting) /\ IsFiniteSet(Pushing) /\ IsFiniteSet(Freeing)
         /\ Cardinality(Waiting) \in Nat /\ Cardinality(Pushing) \in Nat
         /\ Cardinality(Freeing) \in Nat
<1>1. Waiting \in SUBSET Item /\ Pushing \in SUBSET Thread /\ Freeing \in SUBSET Thread
  BY DEF Types, Waiting, Pushing, Freeing
<1>2. IsFiniteSet(1 .. MaxCalls)
  BY NodeFacts, FS_Interval
<1>3. IsFiniteSet(Item)
  BY <1>2, NodeFacts, FS_Product DEF Item
<1> QED BY <1>1, <1>3, NodeFacts, FS_Subset, FS_CardinalityType

\* One more or one fewer.
LEMMA OneMore ==
  ASSUME NEW S, IsFiniteSet(S), NEW x
  PROVE  /\ Cardinality(S) \in Nat
         /\ x \in S => Cardinality(S \ {x}) = Cardinality(S) - 1
         /\ x \notin S => Cardinality(S \cup {x}) = Cardinality(S) + 1 /\ S \ {x} = S
BY FS_CardinalityType, FS_AddElement, FS_RemoveElement

\* An item pushed is counted last, after its thread has linked it.
LEMMA CountPushStep ==
  ASSUME NEW own, NEW pos, NEW older, Whole(own, pos, older), NEW t \in Thread, CountPush(t)
  PROVE  Whole(own, pos, older)'
<1> DEFINE r == Returned(Null)
<1>1. local' = [local EXCEPT ![t] = r]
  BY DEF CountPush, Return
<1>2. local[t].at = "count"
  BY DEF CountPush, At
<1>3. r \in Local /\ r.at = "idle"
  BY ReturnedLocal
<1>4. local'[t] = r /\ Types /\ Counted /\ count \in Int
  BY <1>1, Reads DEF Whole, Types
<1> HIDE DEF r
<1>5. SameRole(r, local[t])
  BY <1>2, <1>3 DEF SameRole
<1>6. Pushing' = Pushing \ {t} /\ Freeing' = Freeing \ {t} /\ Waiting' = Waiting
  <2>1. Pushing' = Pushing \ {t} /\ Freeing' = Freeing \ {t}
    BY <1>1, <1>3, <1>4, CountMoves
  <2> QED BY <2>1 DEF Waiting, CountPush
<1>7. t \in Pushing /\ t \notin Freeing
  BY <1>2 DEF Pushing, Freeing, At
<1>8. IsFiniteSet(Pushing) /\ IsFiniteSet(Freeing)
  BY <1>4, FiniteCounts
<1>9. Counted' /\ count' \in Int
  <2> DEFINE W == Cardinality(Waiting)
             P == Cardinality(Pushing)
             F == Cardinality(Freeing)
             Wn == Cardinality(Waiting')
             Pn == Cardinality(Pushing')
             Fn == Cardinality(Freeing')
  <2>1. count' = count + 1
    BY DEF CountPush
  <2>2. W = count + P + F /\ W \in Nat /\ P \in Nat /\ F \in Nat
    BY <1>4, FiniteCounts DEF Counted
  <2>3. Wn = W
    BY <1>6
  <2>4. Pn = P - 1
    BY <1>6, <1>7, <1>8, OneMore
  <2>5. Fn = F
    BY <1>6, <1>7, <1>8, OneMore
  <2> HIDE DEF W, P, F, Wn, Pn, Fn
  <2>6. Wn = count' + Pn + Fn
    BY <1>4, <2>1, <2>2, <2>3, <2>4, <2>5
  <2>7. count' \in Int
    BY <1>4, <2>1
  <2> QED BY <2>6, <2>7 DEF Counted, Wn, Pn, Fn
<1>10. KnowsTail(t)' /\ KnowsHead(t)'
  BY <1>3, <1>4 DEF KnowsTail, KnowsHead
<1> QED BY <1>1, <1>3, <1>5, <1>9, <1>10, PlainStep DEF CountPush

\* An item popped is taken off the count before its node is free.
LEMMA UncountStep ==
  ASSUME NEW own, NEW pos, NEW older, Whole(own, pos, older), NEW t \in Thread, Uncount(t)
  PROVE  Whole(own, pos, older)'
<1> DEFINE r == [local[t] EXCEPT !.at = "free"]
<1>1. local' = [local EXCEPT ![t] = r]
  BY DEF Uncount, Goto
<1>2. local[t].at = "uncount" /\ local[t] \in Local
  BY Reads DEF Uncount, At
<1>3. r \in Local /\ r.at = "free" /\ r.node = local[t].node /\ r.elem = local[t].elem
  BY <1>2 DEF Local, Where
<1>4. local'[t] = r /\ Types /\ Counted /\ count \in Int
  BY <1>1, Reads DEF Whole, Types
<1> HIDE DEF r
<1>5. SameRole(r, local[t])
  BY <1>2, <1>3 DEF SameRole
<1>6. Pushing' = Pushing \ {t} /\ Freeing' = Freeing \cup {t} /\ Waiting' = Waiting
  <2>1. Pushing' = Pushing \ {t} /\ Freeing' = Freeing \cup {t}
    BY <1>1, <1>3, <1>4, CountMoves
  <2> QED BY <2>1 DEF Waiting, Uncount
<1>7. t \notin Pushing /\ t \notin Freeing
  BY <1>2 DEF Pushing, Freeing, Marking, Linking, At
<1>8. IsFiniteSet(Pushing) /\ IsFiniteSet(Freeing)
  BY <1>4, FiniteCounts
<1>9. Counted' /\ count' \in Int
  <2> DEFINE W == Cardinality(Waiting)
             P == Cardinality(Pushing)
             F == Cardinality(Freeing)
             Wn == Cardinality(Waiting')
             Pn == Cardinality(Pushing')
             Fn == Cardinality(Freeing')
  <2>1. count' = count - 1
    BY DEF Uncount
  <2>2. W = count + P + F /\ W \in Nat /\ P \in Nat /\ F \in Nat
    BY <1>4, FiniteCounts DEF Counted
  <2>3. Wn = W
    BY <1>6
  <2>4. Pn = P
    BY <1>6, <1>7, <1>8, OneMore
  <2>5. Fn = F + 1
    BY <1>6, <1>7, <1>8, OneMore
  <2> HIDE DEF W, P, F, Wn, Pn, Fn
  <2>6. Wn = count' + Pn + Fn
    BY <1>4, <2>1, <2>2, <2>3, <2>4, <2>5
  <2>7. count' \in Int
    BY <1>4, <2>1
  <2> QED BY <2>6, <2>7 DEF Counted, Wn, Pn, Fn
<1>10. KnowsTail(t)' /\ KnowsHead(t)'
  BY <1>3, <1>4 DEF KnowsTail, KnowsHead
<1> QED BY <1>1, <1>3, <1>5, <1>9, <1>10, PlainStep DEF Uncount

-----------------------------------------------------------------------------
(* Steps that write a link or take a node *)

\* All threads still know what they should when the one that moves does.
LEMMA KnowingKept ==
  ASSUME NEW own, NEW pos, NEW older, Whole(own, pos, older), Types', Calm(own),
         NEW t \in Thread, \A u \in Thread : u # t => local'[u] = local[u],
         KnowsTail(t)', KnowsHead(t)'
  PROVE  Knowing'
<1>1. Types /\ Knowing /\ Shape(own, pos) /\ own[tail.node] = InQueue
  BY DEF Whole
<1>2. ASSUME NEW u \in Thread, u # t PROVE KnowsTail(u)' /\ KnowsHead(u)'
  <2>1. KnowsTail(u) /\ KnowsHead(u) /\ local'[u] = local[u]
    BY <1>1, <1>2 DEF Knowing
  <2> QED BY <1>1, <2>1, TailKept, HeadKept
<1> QED BY <1>2 DEF Knowing

\* The part of the thread that moves, and of the others.
LEMMA RolesOf ==
  ASSUME Types, NEW t \in Thread, NEW r \in Local, local' = [local EXCEPT ![t] = r]
  PROVE  /\ \A u \in Thread : u # t =>
              /\ local'[u] = local[u]
              /\ (Marking(u)' <=> Marking(u)) /\ (Linking(u)' <=> Linking(u))
              /\ (Popped(u)' <=> Popped(u)) /\ (Owning(u)' <=> Owning(u))
              /\ Held(u)' = Held(u) /\ (At(u, "append")' <=> At(u, "append"))
         /\ local'[t] = r
<1>1. \A u \in Thread : u # t => local'[u] = local[u]
  BY DEF Types
<1>2. local'[t] = r
  BY DEF Types
<1> QED BY <1>1, <1>2 DEF Marking, Linking, Popped, Owning, Held, At

\* A node whose link stays is linked as before.
LEMMA LinkedKept ==
  ASSUME NEW own, NEW pos, NEW n \in Node, next'[n] = next[n], NEW e
  PROVE  Linked(own, pos, n, e)' <=> Linked(own, pos, n, e)
BY DEF Linked

\* The node to push ends its own list of one.
LEMMA MarkStep ==
  ASSUME NEW own, NEW pos, NEW older, Whole(own, pos, older), NEW t \in Thread, Mark(t)
  PROVE  Whole(own, pos, older)'
<1> DEFINE r == [local[t] EXCEPT !.at = "tail sequence"]
           mine == local[t].mine
<1>1. local' = [local EXCEPT ![t] = r]
  BY DEF Mark, Goto
<1>2. local[t].at = "mark" /\ local[t] \in Local
  BY Reads DEF Mark, At
<1>3. r \in Local /\ r.at = "tail sequence" /\ r.mine = mine
  BY <1>2 DEF Local, Where
<1>4. /\ Types /\ Knowing /\ History /\ Counted /\ Shape(own, pos)
      /\ own[tail.node] = InQueue /\ Younger(own, older) /\ Items(own)
  BY DEF Whole
<1>5. /\ Marking(t) /\ ~Linking(t) /\ ~Popped(t) /\ Owning(t) /\ Held(t) = mine
      /\ ~Marking(t)' /\ Linking(t)' /\ ~Popped(t)' /\ Owning(t)' /\ Held(t)' = mine
      /\ ~At(t, "append")'
  <2>1. local'[t] = r
    BY <1>1, <1>4 DEF Types
  <2> HIDE DEF r
  <2> QED BY <1>2, <1>3, <2>1 DEF Marking, Linking, Popped, Owning, Held, At
<1> HIDE DEF r
<1>6. \A u \in Thread : u # t =>
        /\ local'[u] = local[u]
        /\ (Marking(u)' <=> Marking(u)) /\ (Linking(u)' <=> Linking(u))
        /\ (Popped(u)' <=> Popped(u)) /\ (Owning(u)' <=> Owning(u))
        /\ Held(u)' = Held(u) /\ (At(u, "append")' <=> At(u, "append"))
  BY <1>1, <1>3, <1>4, RolesOf
<1>7. /\ next' = [next EXCEPT ![mine] = End]
      /\ elem' = elem /\ head' = head /\ tail' = tail /\ count' = count /\ free' = free
      /\ made' = made /\ left' = left /\ pushed' = pushed /\ taken' = taken
  BY DEF Mark
<1>8. mine \in Node /\ own[mine] = Of(t)
  BY <1>4, <1>5 DEF Shape, Roots
<1> HIDE DEF mine
<1>9. /\ next'[mine] = End
      /\ \A n \in Node : n # mine => next'[n] = next[n]
  BY <1>4, <1>7, <1>8 DEF Types
<1>10. Types'
  <2>1. next' \in [Node -> Node \cup {End, Null}]
    BY <1>4, <1>7 DEF Types
  <2>2. local' \in [Thread -> Local]
    BY <1>1, <1>3, <1>4 DEF Types
  <2> QED BY <1>4, <1>7, <2>1, <2>2 DEF Types
<1>11. Knowing'
  <2>1. Calm(own)
    BY <1>7, <1>8, <1>9, PlacesDiffer DEF Calm
  <2>2. local'[t] = r
    BY <1>1, <1>4 DEF Types
  <2>3. KnowsTail(t)' /\ KnowsHead(t)'
    BY <1>3, <2>2 DEF KnowsTail, KnowsHead
  <2> QED BY <1>6, <1>10, <2>1, <2>3, KnowingKept
<1>12. History'
  BY <1>4, <1>7 DEF History, PoppedOnce
<1>13. Counted'
  <2>1. t \in Pushing /\ t \notin Freeing
    BY <1>2 DEF Pushing, Freeing, Marking, At
  <2> QED BY <1>1, <1>3, <1>4, <1>7, <2>1, CountedKept
<1>14. Lists(own, pos)'
  <2> SUFFICES ASSUME NEW n \in Node
               PROVE  /\ own[n] = InQueue => Linked(own, pos, n, End)'
                      /\ own[n] = OnFree => Linked(own, pos, n, Null)'
                      /\ \A u \in Thread :
                           own[n] = Of(u) =>
                             /\ Owning(u)'
                             /\ Linking(u)' => Linked(own, pos, n, End)'
                             /\ ~Linking(u)' => n = Held(u)' /\ next'[n] # End
                      /\ own[n] = Unmade <=> n >= made'
                      /\ own[n] = Unmade => next'[n] # End
    BY DEF Lists
  <2>1. /\ own[n] = InQueue => Linked(own, pos, n, End)
        /\ own[n] = OnFree => Linked(own, pos, n, Null)
        /\ \A u \in Thread :
             own[n] = Of(u) =>
               /\ Owning(u)
               /\ Linking(u) => Linked(own, pos, n, End)
               /\ ~Linking(u) => n = Held(u) /\ next[n] # End
        /\ own[n] = Unmade <=> n >= made
        /\ own[n] = Unmade => next[n] # End
    BY <1>4 DEF Shape, Lists
  <2>2. CASE n = mine
    <3>1. Linked(own, pos, n, End)'
      <4>1. \A m \in Node : own[m] = Of(t) => m = mine
        BY <1>4, <1>5 DEF Shape, Lists
      <4>2. pos[mine] <= pos[mine]
        BY <1>4, <1>8 DEF Shape, Places
      <4> QED BY <1>8, <1>9, <2>2, <4>1, <4>2 DEF Linked
    <3> QED BY <1>5, <1>7, <1>8, <2>1, <2>2, <3>1, PlacesDiffer
  <2>3. CASE n # mine
    <3>1. \A e : Linked(own, pos, n, e)' <=> Linked(own, pos, n, e)
      BY <1>9, <2>3, LinkedKept
    <3>2. own[n] # Of(t)
      BY <1>5, <2>1, <2>3
    <3> QED BY <1>6, <1>7, <1>9, <2>1, <2>3, <3>1, <3>2
  <2> QED BY <2>2, <2>3
<1>15. Roots(own, pos)'
  BY <1>4, <1>5, <1>6, <1>7 DEF Shape, Roots, Leads
<1>16. Shape(own, pos)'
  BY <1>4, <1>14, <1>15 DEF Shape, Places
<1>17. Younger(own, older)'
  BY <1>4, <1>5, <1>6 DEF Younger
<1>18. Items(own)'
  BY <1>4, <1>5, <1>6, <1>7, ItemsKept
<1> QED BY <1>4, <1>7, <1>10, <1>11, <1>12, <1>13, <1>16, <1>17, <1>18 DEF Whole

\* The node PushItem takes is on the free list, and the next there comes to its top, or
\* it is new.
LEMMA NodeTaken ==
  ASSUME NEW own, NEW pos, Types, Shape(own, pos), NEW n \in Node,
         n = IF free # Null THEN free ELSE made,
         free' = IF free # Null THEN next[free] ELSE free,
         made' = IF free # Null THEN made ELSE made + 1
  PROVE  /\ own[n] \in {OnFree, Unmade} /\ next[n] # End
         /\ \A m \in Node : next[m] = n /\ own[m] = OnFree => pos[n] # pos[m] + 1
         /\ free' \in Node \cup {Null} /\ made' \in 1 .. MaxNodes
         /\ \A m \in Node : m >= made' <=> m # n /\ own[m] = Unmade
         /\ free' # Null => /\ free' # n /\ own[free'] = OnFree
                            /\ \A m \in Node : own[m] = OnFree /\ m # n => pos[free'] <= pos[m]
         /\ free' = Null => \A m \in Node : own[m] = OnFree => m = n
<1>1. /\ made \in 1 .. MaxNodes /\ free \in Node \cup {Null}
      /\ \A m \in Node : own[m] = Unmade <=> m >= made
      /\ \A m \in Node : own[m] = Unmade => next[m] # End
      /\ \A m \in Node : pos[m] \in Int /\ m \in Int
      /\ \A k, m \in Node : own[k] = own[m] /\ pos[k] = pos[m] => k = m
  BY NodeFacts DEF Types, Shape, Lists, Places
<1>2. CASE free # Null
  <2>1. n = free /\ free' = next[n] /\ made' = made
    BY <1>2
  <2>2. own[n] = OnFree /\ Leads(own, pos, n) /\ Linked(own, pos, n, Null)
    BY <1>2, <2>1 DEF Shape, Roots, Lists
  <2>3. next[n] # End /\ free' \in Node \cup {Null}
    BY <2>1, <2>2, NodeFacts DEF Linked
  <2>4. ASSUME NEW m \in Node, next[m] = n, own[m] = OnFree PROVE pos[n] # pos[m] + 1
    <3>1. pos[n] <= pos[m]
      BY <2>2, <2>4 DEF Leads
    <3> QED BY <1>1, <3>1
  <2>5. ASSUME NEW m \in Node PROVE m >= made' <=> m # n /\ own[m] = Unmade
    BY <1>1, <2>1, <2>2, PlacesDiffer
  <2>6. ASSUME NEW m \in Node, own[m] = OnFree, m # n PROVE pos[n] + 1 <= pos[m]
    <3>1. pos[n] <= pos[m] /\ pos[n] # pos[m]
      BY <1>1, <2>2, <2>6 DEF Leads
    <3> QED BY <1>1, <3>1
  <2>7. ASSUME free' # Null
        PROVE  /\ free' # n /\ own[free'] = OnFree
               /\ \A m \in Node : own[m] = OnFree /\ m # n => pos[free'] <= pos[m]
    <3>1. free' \in Node /\ own[free'] = OnFree /\ pos[free'] = pos[n] + 1
      BY <2>1, <2>2, <2>3, <2>7 DEF Linked
    <3>2. pos[n] \in Int
      BY <1>1
    <3> QED BY <2>6, <3>1, <3>2
  <2>8. ASSUME free' = Null, NEW m \in Node, own[m] = OnFree PROVE m = n
    <3>1. pos[m] <= pos[n]
      BY <2>1, <2>2, <2>8, NodeFacts DEF Linked
    <3>2. m # n => pos[n] + 1 <= pos[m]
      BY <2>6, <2>8
    <3>3. pos[m] \in Int /\ pos[n] \in Int
      BY <1>1
    <3> QED BY <3>1, <3>2, <3>3
  <2> QED BY <1>1, <2>1, <2>2, <2>3, <2>4, <2>5, <2>7, <2>8
<1>3. CASE free = Null
  <2>1. n = made /\ free' = Null /\ made' = made + 1
    BY <1>3
  <2>2. own[n] = Unmade /\ next[n] # End
    BY <1>1, <2>1
  <2>3. \A m \in Node : own[m] # OnFree
    BY <1>3 DEF Shape, Roots
  <2>4. ASSUME NEW m \in Node, own[m] = OnFree PROVE FALSE
    BY <2>3, <2>4
  <2>5. made' \in 1 .. MaxNodes
    BY <1>1, <2>1, NodeFacts
  <2>6. ASSUME NEW m \in Node PROVE m >= made' <=> m # n /\ own[m] = Unmade
    BY <1>1, <2>1
  <2> QED BY <2>1, <2>2, <2>3, <2>4, <2>5, <2>6
<1> QED BY <1>2, <1>3

\* The lists without the node taken.
LEMMA TakeShape ==
  ASSUME NEW own, NEW pos, Types, Shape(own, pos), NEW t \in Thread, NEW n \in Node,
         ~Owning(t), Marking(t)', ~Linking(t)', Owning(t)', Held(t)' = n,
         \A u \in Thread : u # t =>
           /\ (Linking(u)' <=> Linking(u)) /\ (Owning(u)' <=> Owning(u))
           /\ Held(u)' = Held(u),
         n = IF free # Null THEN free ELSE made,
         free' = IF free # Null THEN next[free] ELSE free,
         made' = IF free # Null THEN made ELSE made + 1,
         next' = next, head' = head,
         NEW o, o = [own EXCEPT ![n] = Of(t)]
  PROVE  Shape(o, pos)'
<1>1. /\ own[n] \in {OnFree, Unmade} /\ next[n] # End
      /\ \A m \in Node : next[m] = n /\ own[m] = OnFree => pos[n] # pos[m] + 1
      /\ free' \in Node \cup {Null} /\ made' \in 1 .. MaxNodes
      /\ \A m \in Node : m >= made' <=> m # n /\ own[m] = Unmade
      /\ free' # Null => /\ free' # n /\ own[free'] = OnFree
                         /\ \A m \in Node : own[m] = OnFree /\ m # n => pos[free'] <= pos[m]
      /\ free' = Null => \A m \in Node : own[m] = OnFree => m = n
  BY NodeTaken
<1>2. /\ own \in [Node -> Place] /\ pos \in [Node -> Int]
      /\ \A k, m \in Node : own[k] = own[m] /\ pos[k] = pos[m] => k = m
      /\ Lists(own, pos) /\ Roots(own, pos)
  BY DEF Shape, Places
<1>3. \A m \in Node : own[m] # Of(t)
  BY <1>2 DEF Lists
<1>4. o \in [Node -> Place] /\ o[n] = Of(t) /\ \A m \in Node : m # n => o[m] = own[m]
  BY <1>2 DEF Place
<1>5. Places(o, pos)'
  BY <1>2, <1>3, <1>4 DEF Places
<1>6. ASSUME NEW m \in Node, m # n, NEW e, own[m] # Unmade, Linked(own, pos, m, e)
      PROVE  Linked(o, pos, m, e)'
  <2>1. CASE next[m] = e /\ \A k \in Node : own[k] = own[m] => pos[k] <= pos[m]
    BY <1>3, <1>4, <1>6, <2>1 DEF Linked
  <2>2. CASE next[m] \in Node /\ own[next[m]] = own[m] /\ pos[next[m]] = pos[m] + 1
    <3>1. next[m] # n
      BY <1>1, <1>6, <2>2
    <3> QED BY <1>4, <1>6, <2>2, <3>1 DEF Linked
  <2> QED BY <1>6, <2>1, <2>2 DEF Linked
<1>7. Lists(o, pos)'
  <2> SUFFICES ASSUME NEW m \in Node
               PROVE  /\ o[m] = InQueue => Linked(o, pos, m, End)'
                      /\ o[m] = OnFree => Linked(o, pos, m, Null)'
                      /\ \A u \in Thread :
                           o[m] = Of(u) =>
                             /\ Owning(u)'
                             /\ Linking(u)' => Linked(o, pos, m, End)'
                             /\ ~Linking(u)' => m = Held(u)' /\ next'[m] # End
                      /\ o[m] = Unmade <=> m >= made'
                      /\ o[m] = Unmade => next'[m] # End
    BY DEF Lists
  <2>1. /\ own[m] = InQueue => Linked(own, pos, m, End)
        /\ own[m] = OnFree => Linked(own, pos, m, Null)
        /\ \A u \in Thread :
             own[m] = Of(u) =>
               /\ Owning(u)
               /\ Linking(u) => Linked(own, pos, m, End)
               /\ ~Linking(u) => m = Held(u) /\ next[m] # End
        /\ own[m] = Unmade => next[m] # End
    BY <1>2 DEF Lists
  <2>2. CASE m = n
    BY <1>1, <1>4, <2>2, PlacesDiffer
  <2>3. CASE m # n
    <3>1. \A e : own[m] # Unmade /\ Linked(own, pos, m, e) => Linked(o, pos, m, e)'
      BY <1>6, <2>3
    <3>2. o[m] = own[m] /\ own[m] # Of(t)
      BY <1>3, <1>4, <2>3
    <3>3. own[m] = Unmade <=> m >= made'
      BY <1>1, <2>3
    <3> QED BY <2>1, <3>1, <3>2, <3>3, PlacesDiffer
  <2> QED BY <2>2, <2>3
<1>8. Roots(o, pos)'
  <2>1. o[head.node] = InQueue /\ \A m \in Node : o[m] = InQueue => pos[head.node] <= pos[m]
    <3>1. head.node \in Node /\ own[head.node] = InQueue
      BY <1>2 DEF Types, LinkType, Roots
    <3>2. head.node # n
      BY <1>1, <3>1, PlacesDiffer
    <3> QED BY <1>2, <1>4, <3>1, <3>2, PlacesDiffer DEF Roots, Leads
  <2>2. \A m \in Node : o[m] = OnFree <=> own[m] = OnFree /\ m # n
    BY <1>4, PlacesDiffer
  <2>3. free' # Null => o[free'] = OnFree /\ \A m \in Node : o[m] = OnFree => pos[free'] <= pos[m]
    BY <1>1, <1>4, <2>2
  <2>4. free' = Null => \A m \in Node : o[m] # OnFree
    BY <1>1, <2>2
  <2>5. ASSUME NEW u \in Thread, Owning(u)'
        PROVE  Held(u)' \in Node /\ o[Held(u)'] = Of(u)
               /\ \A m \in Node : o[m] = Of(u) => pos[Held(u)'] <= pos[m]
    <3>1. CASE u = t
      <4>1. \A m \in Node : o[m] = Of(t) => m = n
        BY <1>3, <1>4
      <4>2. pos[n] <= pos[n]
        BY <1>2
      <4> QED BY <1>4, <3>1, <4>1, <4>2
    <3>2. CASE u # t
      <4>1. Held(u) \in Node /\ own[Held(u)] = Of(u) /\ Leads(own, pos, Held(u))
        BY <1>2, <2>5, <3>2 DEF Roots
      <4>2. Held(u) # n /\ o[Held(u)] = Of(u)
        BY <1>1, <1>4, <4>1, PlacesDiffer
      <4>3. \A m \in Node : o[m] = Of(u) => own[m] = Of(u)
        BY <1>4, <3>2, PlacesDiffer
      <4> QED BY <3>2, <4>1, <4>2, <4>3 DEF Leads
    <3> QED BY <3>1, <3>2
  <2> QED BY <2>1, <2>3, <2>4, <2>5 DEF Roots, Leads
<1> QED BY <1>5, <1>7, <1>8 DEF Shape

\* The order of the threads with t as the youngest.
LEMMA Youngest ==
  ASSUME NEW older, NEW t \in Thread, Strict(older)
  PROVE  \E q : /\ Strict(q)
                /\ \A x \in Thread : x # t => <<x, t>> \in q
                /\ \A x, y \in Thread : x # t /\ <<x, y>> \in older => <<x, y>> \in q
<1> DEFINE q == {p \in Thread \X Thread : p[1] # t /\ (p[2] = t \/ p \in older)}
<1>1. \A x, y \in Thread : <<x, y>> \in q <=> x # t /\ (y = t \/ <<x, y>> \in older)
  OBVIOUS
<1> HIDE DEF q
<1>2. Strict(q)
  BY <1>1 DEF Strict
<1>3. \A x \in Thread : x # t => <<x, t>> \in q
  BY <1>1
<1> QED BY <1>1, <1>2, <1>3

\* The new item is in the node taken, and nowhere else.
LEMMA PushItems ==
  ASSUME NEW own, Types, NEW n \in Node, own[n] \in {OnFree, Unmade}, own \in [Node -> Place],
         NEW t \in Thread, ~Popped(t), ~Popped(t)', \A m \in Node : own[m] # Of(t),
         \A u \in Thread : u # t => (Popped(u)' <=> Popped(u)) /\ local'[u] = local[u],
         NEW o, o = [own EXCEPT ![n] = Of(t)],
         NEW i, i \notin pushed, elem' = [elem EXCEPT ![n] = i],
         Waiting' = Waiting \cup {i}, head' = head, Items(own)
  PROVE  Items(o)'
<1>1. o[n] = Of(t) /\ \A m \in Node : m # n => o[m] = own[m]
  OBVIOUS
<1>2. elem'[n] = i /\ \A m \in Node : m # n => elem'[m] = elem[m]
  BY DEF Types
<1>3. ASSUME NEW m \in Node PROVE Live(o, m)' <=> m = n \/ Live(own, m)
  <2>1. CASE m = n
    BY <1>1, <2>1 DEF Live
  <2>2. CASE m # n
    BY <1>1, <2>2 DEF Live
  <2> QED BY <2>1, <2>2
<1>4. ~Live(own, n)
  BY PlacesDiffer DEF Live
<1>5. i \notin Waiting
  BY DEF Waiting
<1>6. \A u \in Thread : (Popped(u)' <=> Popped(u)) /\ (Popped(u) => local'[u] = local[u])
  OBVIOUS
<1> DEFINE W == Waiting
<1>7. /\ \A m \in Node : Live(own, m) => elem[m] \in W
      /\ \A k, m \in Node : Live(own, k) /\ Live(own, m) /\ elem[k] = elem[m] => k = m
      /\ \A u \in Thread : Popped(u) => local[u].elem \in W
      /\ \A u, v \in Thread : Popped(u) /\ Popped(v) /\ local[u].elem = local[v].elem => u = v
      /\ \A m \in Node, u \in Thread : Live(own, m) /\ Popped(u) => elem[m] # local[u].elem
      /\ \A j \in W : \/ \E m \in Node : Live(own, m) /\ elem[m] = j
                      \/ \E u \in Thread : Popped(u) /\ local[u].elem = j
  BY DEF Items
<1>8. Waiting' = W \cup {i} /\ i \notin W
  BY <1>5
<1> HIDE DEF W
<1>9. \A m \in Node : Live(o, m)' => elem'[m] \in W \cup {i}
  BY <1>2, <1>3, <1>7
<1>10. ASSUME NEW k \in Node, NEW m \in Node, Live(o, k)', Live(o, m)', elem'[k] = elem'[m]
       PROVE  k = m
  <2>1. CASE k = n
    BY <1>2, <1>3, <1>7, <1>8, <1>10, <2>1
  <2>2. CASE m = n
    BY <1>2, <1>3, <1>7, <1>8, <1>10, <2>2
  <2>3. CASE k # n /\ m # n
    BY <1>2, <1>3, <1>7, <1>10, <2>3
  <2> QED BY <2>1, <2>2, <2>3
<1>11. \A u \in Thread : Popped(u)' => local'[u].elem \in W \cup {i}
  BY <1>6, <1>7
<1>12. \A u, v \in Thread : Popped(u)' /\ Popped(v)' /\ local'[u].elem = local'[v].elem => u = v
  BY <1>6, <1>7
<1>13. ASSUME NEW m \in Node, NEW u \in Thread, Live(o, m)', Popped(u)'
       PROVE  elem'[m] # local'[u].elem
  <2>1. Popped(u) /\ local'[u] = local[u] /\ local[u].elem \in W
    BY <1>6, <1>7, <1>13
  <2>2. CASE m = n
    BY <1>2, <1>8, <2>1, <2>2
  <2>3. CASE m # n
    BY <1>2, <1>3, <1>7, <1>13, <2>1, <2>3
  <2> QED BY <2>2, <2>3
<1>14. ASSUME NEW j \in W \cup {i}
       PROVE  \/ \E m \in Node : Live(o, m)' /\ elem'[m] = j
              \/ \E u \in Thread : Popped(u)' /\ local'[u].elem = j
  <2>1. CASE j = i
    BY <1>2, <1>3, <2>1
  <2>2. CASE j \in W
    <3>1. CASE \E m \in Node : Live(own, m) /\ elem[m] = j
      <4>1. PICK m \in Node : Live(own, m) /\ elem[m] = j
        BY <3>1
      <4>2. m # n
        BY <1>4, <4>1
      <4> QED BY <1>2, <1>3, <4>1, <4>2
    <3>2. CASE \E u \in Thread : Popped(u) /\ local[u].elem = j
      BY <1>6, <3>2
    <3> QED BY <1>7, <2>2, <3>1, <3>2
  <2> QED BY <2>1, <2>2
<1> QED BY <1>8, <1>9, <1>10, <1>11, <1>12, <1>13, <1>14 DEF Items

\* The item pushed is a new one.
LEMMA NewItem ==
  ASSUME Types, History, NEW t \in Thread, left[t] > 0
  PROVE  /\ <<t, left[t]>> \in Item /\ <<t, left[t]>> \notin pushed
         /\ taken[<<t, left[t]>>] = 0
<1>1. left[t] \in 1 .. MaxCalls
  BY NodeFacts DEF Types
<1> DEFINE i == <<t, left[t]>>
<1>2. i \in Item /\ i[1] = t /\ i[2] = left[t]
  BY <1>1 DEF Item
<1> HIDE DEF i
<1>3. i \notin pushed
  BY <1>1, <1>2 DEF History
<1>4. taken[i] \in Nat /\ taken[i] <= 0
  BY <1>2, <1>3 DEF Types, History, PoppedOnce
<1> QED BY <1>2, <1>3, <1>4 DEF i

\* What was pushed and popped after a push has begun.
LEMMA PushHistory ==
  ASSUME Types, History, NEW t \in Thread, left[t] > 0,
         pushed' = pushed \cup {<<t, left[t]>>}, left' = [left EXCEPT ![t] = @ - 1],
         taken' = taken
  PROVE  History' /\ Waiting' = Waiting \cup {<<t, left[t]>>}
<1> DEFINE i == <<t, left[t]>>
<1>1. i \in Item /\ i \notin pushed /\ taken[i] = 0
  BY NewItem
<1>2. /\ \A u \in Thread : left[u] \in Int /\ left'[u] \in Int /\ left'[u] <= left[u]
      /\ left'[t] = left[t] - 1
  BY DEF Types
<1>3. i[1] = t /\ i[2] = left[t]
  OBVIOUS
<1> HIDE DEF i
<1>4. pushed' = pushed \cup {i}
  BY DEF i
<1>5. ASSUME NEW j \in pushed' PROVE j[2] > left'[j[1]]
  <2>1. CASE j = i
    BY <1>2, <1>3, <2>1
  <2>2. CASE j \in pushed
    <3>1. j[1] \in Thread /\ j[2] \in Int
      BY <2>2, NodeFacts DEF Types, Item
    <3> QED BY <1>2, <2>2, <3>1 DEF History
  <2> QED BY <1>4, <1>5, <2>1, <2>2
<1>6. PoppedOnce'
  <2>1. \A j \in Item : taken[j] <= (IF j \in pushed THEN 1 ELSE 0) /\ taken[j] \in Nat
    BY DEF Types, History, PoppedOnce
  <2>2. ASSUME NEW j \in Item PROVE taken'[j] <= (IF j \in pushed' THEN 1 ELSE 0)
    BY <1>1, <1>4, <2>1, <2>2
  <2> QED BY <2>2 DEF PoppedOnce
<1>7. Waiting' = Waiting \cup {i}
  BY <1>1, <1>4 DEF Waiting
<1> QED BY <1>5, <1>6, <1>7 DEF History, i

\* A node is taken for an item.
LEMMA PushItemStep ==
  ASSUME NEW own, NEW pos, NEW older, Whole(own, pos, older), NEW t \in Thread, PushItem(t)
  PROVE  Inv'
<1> DEFINE n == IF free # Null THEN free ELSE made
           i == <<t, left[t]>>
           r == [Returned(Null) EXCEPT !.at = "mark", !.mine = n]
<1>1. /\ n \in Node /\ left[t] > 0 /\ left' = [left EXCEPT ![t] = @ - 1]
      /\ free' = IF free # Null THEN next[free] ELSE free
      /\ made' = IF free # Null THEN made ELSE made + 1
      /\ elem' = [elem EXCEPT ![n] = i]
      /\ pushed' = pushed \cup {i}
      /\ local' = [local EXCEPT ![t] = r]
      /\ next' = next /\ head' = head /\ tail' = tail /\ count' = count /\ taken' = taken
      /\ local[t].at = "idle"
  BY DEF PushItem, Begin, Idle, At
<1>2. r \in Local /\ r.at = "mark" /\ r.mine = n
  BY <1>1, MarkLocal
<1>3. /\ Types /\ Knowing /\ History /\ Counted /\ Shape(own, pos)
      /\ own[tail.node] = InQueue /\ Younger(own, older) /\ Items(own)
  BY DEF Whole
<1>4. local'[t] = r
  BY <1>1, <1>3 DEF Types
<1> HIDE DEF r
<1>5. /\ ~Owning(t) /\ ~Popped(t) /\ Marking(t)' /\ ~Linking(t)' /\ ~Popped(t)' /\ Owning(t)'
      /\ Held(t)' = n /\ ~At(t, "append")'
  BY <1>1, <1>2, <1>4 DEF Marking, Linking, Popped, Owning, Held, At
<1>6. \A u \in Thread : u # t =>
        /\ local'[u] = local[u]
        /\ (Marking(u)' <=> Marking(u)) /\ (Linking(u)' <=> Linking(u))
        /\ (Popped(u)' <=> Popped(u)) /\ (Owning(u)' <=> Owning(u))
        /\ Held(u)' = Held(u) /\ (At(u, "append")' <=> At(u, "append"))
  BY <1>1, <1>2, <1>3, RolesOf
<1>7. i \in Item /\ i \notin pushed /\ taken[i] = 0
  BY <1>1, <1>3, NewItem
<1>8. History' /\ Waiting' = Waiting \cup {i}
  BY <1>1, <1>3, PushHistory
<1>9. /\ own[n] \in {OnFree, Unmade}
      /\ free' \in Node \cup {Null} /\ made' \in 1 .. MaxNodes
  <2> HIDE DEF n
  <2>1. n = IF free # Null THEN free ELSE made
    BY DEF n
  <2> QED BY <1>1, <1>3, <2>1, NodeTaken
<1>10. own \in [Node -> Place] /\ \A m \in Node : own[m] # Of(t)
  BY <1>3, <1>5 DEF Shape, Places, Lists
<1>11. PICK o : o = [own EXCEPT ![n] = Of(t)]
  OBVIOUS
<1>12. Shape(o, pos)'
  <2> HIDE DEF n
  <2>1. n = IF free # Null THEN free ELSE made
    BY DEF n
  <2> QED BY <1>1, <1>3, <1>5, <1>6, <1>11, <2>1, TakeShape
<1> HIDE DEF n
<1>13. Items(o)'
  <2> HIDE DEF i
  <2> QED BY <1>1, <1>3, <1>5, <1>6, <1>7, <1>8, <1>9, <1>10, <1>11, PushItems
<1>14. o[n] = Of(t) /\ \A m \in Node : m # n => o[m] = own[m]
  BY <1>1, <1>10, <1>11
<1>15. Types'
  <2>1. elem' \in [Node -> Item \cup {Null}]
    BY <1>1, <1>3, <1>7 DEF Types
  <2>2. local' \in [Thread -> Local]
    BY <1>1, <1>2, <1>3 DEF Types
  <2>3. left' \in [Thread -> 0 .. MaxCalls]
    BY <1>1, <1>3, NodeFacts DEF Types
  <2>4. pushed' \in SUBSET Item
    BY <1>1, <1>3, <1>7 DEF Types
  <2> QED BY <1>1, <1>3, <1>9, <2>1, <2>2, <2>3, <2>4 DEF Types
<1>16. Knowing'
  <2>1. Calm(own)
    <3>1. \A m \in Node : own[m] = InQueue => elem'[m] = elem[m]
      BY <1>1, <1>3, <1>9, PlacesDiffer DEF Types
    <3> QED BY <1>1, <3>1 DEF Calm
  <2>2. KnowsTail(t)' /\ KnowsHead(t)'
    BY <1>2, <1>4 DEF KnowsTail, KnowsHead
  <2> QED BY <1>6, <1>15, <2>1, <2>2, KnowingKept
<1>17. Counted'
  <2>1. t \notin Pushing /\ t \notin Freeing
    BY <1>1 DEF Pushing, Freeing, Marking, Linking, At
  <2>2. Pushing' = Pushing \cup {t} /\ Freeing' = Freeing \ {t}
    BY <1>1, <1>2, <1>3, CountMoves
  <2>3. i \notin Waiting
    BY <1>7 DEF Waiting
  <2>4. IsFiniteSet(Waiting) /\ IsFiniteSet(Pushing) /\ IsFiniteSet(Freeing)
    BY <1>3, FiniteCounts
  <2> DEFINE W == Cardinality(Waiting)
             P == Cardinality(Pushing)
             F == Cardinality(Freeing)
             Wn == Cardinality(Waiting')
             Pn == Cardinality(Pushing')
             Fn == Cardinality(Freeing')
  <2>5. W = count + P + F /\ W \in Nat /\ P \in Nat /\ F \in Nat
    BY <1>3, FiniteCounts DEF Counted
  <2>6. Wn = W + 1
    BY <1>8, <2>3, <2>4, OneMore
  <2>7. Pn = P + 1
    BY <2>1, <2>2, <2>4, OneMore
  <2>8. Fn = F
    BY <2>1, <2>2, <2>4, OneMore
  <2>9. count' = count /\ count \in Int
    BY <1>1, <1>3 DEF Types
  <2> HIDE DEF W, P, F, Wn, Pn, Fn
  <2>10. Wn = count' + Pn + Fn
    BY <2>5, <2>6, <2>7, <2>8, <2>9
  <2> QED BY <2>10 DEF Counted, Wn, Pn, Fn
<1>18. o[tail'.node] = InQueue
  <2>1. tail.node \in Node /\ tail.node # n
    BY <1>3, <1>9, PlacesDiffer DEF Types, LinkType
  <2> QED BY <1>1, <1>3, <1>14, <2>1
<1>19. \E q : Younger(o, q)'
  <2>1. PICK q : /\ Strict(q)
                 /\ \A x \in Thread : x # t => <<x, t>> \in q
                 /\ \A x, y \in Thread : x # t /\ <<x, y>> \in older => <<x, y>> \in q
    BY <1>3, Youngest DEF Younger
  <2>2. ASSUME NEW x \in Thread, NEW u \in Thread, At(x, "append")',
               o[local'[x].node] = Of(u), ~Popped(u)'
        PROVE  <<x, u>> \in q
    <3>1. x # t /\ At(x, "append") /\ local'[x] = local[x]
      BY <1>5, <1>6, <2>2
    <3>2. CASE u = t
      BY <2>1, <3>1, <3>2
    <3>3. CASE u # t
      <4>1. local[x].node \in Node
        BY <1>3, <3>1 DEF Knowing, KnowsTail, At
      <4>2. own[local[x].node] = Of(u)
        BY <1>14, <2>2, <3>1, <3>3, <4>1, PlacesDiffer
      <4>3. <<x, u>> \in older
        BY <1>3, <1>6, <2>2, <3>1, <3>3, <4>2 DEF Younger
      <4> QED BY <2>1, <3>1, <4>3
    <3> QED BY <3>2, <3>3
  <2>3. Younger(o, q)'
    BY <2>1, <2>2 DEF Younger
  <2> QED BY <2>3
<1>20. PICK q : Younger(o, q)'
  BY <1>19
<1>21. Whole(o, pos, q)'
  BY <1>8, <1>12, <1>13, <1>15, <1>16, <1>17, <1>18, <1>20 DEF Whole
<1> QED BY <1>21 DEF Inv

\* A node that ends in End() is the last in the queue or of what another thread holds.
LEMMA EndIsLast ==
  ASSUME NEW own, NEW pos, Types, Shape(own, pos), NEW x \in Node, next[x] = End
  PROVE  /\ own[x] = InQueue \/ \E c \in Thread : own[x] = Of(c) /\ Linking(c)
         /\ \A m \in Node : own[m] = own[x] => pos[m] <= pos[x]
<1>1. /\ own[x] = InQueue => Linked(own, pos, x, End)
      /\ own[x] = OnFree => Linked(own, pos, x, Null)
      /\ \A u \in Thread :
           own[x] = Of(u) => /\ Linking(u) => Linked(own, pos, x, End)
                             /\ ~Linking(u) => next[x] # End
      /\ own[x] = Unmade => next[x] # End
  BY DEF Shape, Lists
<1>2. own[x] \in Place
  BY DEF Shape, Places
<1>3. \A e : Linked(own, pos, x, e) =>
        e = End /\ \A m \in Node : own[m] = own[x] => pos[m] <= pos[x]
  BY NodeFacts DEF Linked
<1> QED BY <1>1, <1>2, <1>3, NodeFacts DEF Place

\* Where the nodes are, and in which order, when those of t, from mine on, are behind x.
MovedOwn(own, t, x) == [m \in Node |-> IF own[m] = Of(t) THEN own[x] ELSE own[m]]
MovedPos(own, pos, t, mine, x) ==
  [m \in Node |-> IF own[m] = Of(t) THEN pos[m] - pos[mine] + pos[x] + 1 ELSE pos[m]]

\* The nodes of t come behind x, the last of another list.
LEMMA AppendShape ==
  ASSUME NEW own, NEW pos, Types, Shape(own, pos), NEW t \in Thread, NEW x \in Node,
         Linking(t), Held(t) = local[t].mine, ~Owning(t)', next[x] = End, own[x] # Of(t),
         \A u \in Thread : u # t =>
           /\ (Linking(u)' <=> Linking(u)) /\ (Owning(u)' <=> Owning(u))
           /\ Held(u)' = Held(u),
         NEW mine \in Node, mine = local[t].mine, own[mine] = Of(t),
         next' = [next EXCEPT ![x] = mine], head' = head, free' = free, made' = made,
         NEW o, o = MovedOwn(own, t, x), NEW p, p = MovedPos(own, pos, t, mine, x)
  PROVE  Shape(o, p)'
<1>1. /\ own \in [Node -> Place] /\ pos \in [Node -> Int]
      /\ \A k, m \in Node : own[k] = own[m] /\ pos[k] = pos[m] => k = m
      /\ Lists(own, pos) /\ Roots(own, pos)
  BY DEF Shape, Places
<1>2. PICK R \in Place : R = own[x]
  BY <1>1
<1>3. /\ R = InQueue \/ \E c \in Thread : c # t /\ R = Of(c) /\ Linking(c)
      /\ \A m \in Node : own[m] = R => pos[m] <= pos[x]
  BY <1>2, EndIsLast
<1>4. \A m \in Node : own[m] = Of(t) => pos[mine] <= pos[m]
  <2>1. Owning(t)
    BY DEF Owning
  <2> QED BY <1>1, <2>1 DEF Roots, Leads
<1>5. /\ next'[x] = mine /\ \A m \in Node : m # x => next'[m] = next[m]
  BY DEF Types
<1>6. /\ \A m \in Node : own[m] = Of(t) => o[m] = R /\ p[m] = pos[m] - pos[mine] + pos[x] + 1
      /\ \A m \in Node : own[m] # Of(t) => o[m] = own[m] /\ p[m] = pos[m]
      /\ o \in [Node -> Place] /\ p \in [Node -> Int]
  BY <1>1, <1>2 DEF MovedOwn, MovedPos
<1>7. /\ R # Of(t) /\ own[x] = R /\ \A m \in Node : pos[m] \in Int /\ p[m] \in Int
  BY <1>1, <1>2, <1>6
<1> DEFINE Mine(m) == own[m] = Of(t)
<1>8. /\ \A m \in Node : Mine(m) => p[m] > pos[x]
      /\ \A m \in Node : o[m] = R <=> own[m] = R \/ Mine(m)
      /\ \A m \in Node : o[m] # Of(t)
      /\ \A m \in Node : \A y : y # R /\ y # Of(t) => (o[m] = y <=> own[m] = y)
  BY <1>4, <1>6, <1>7
<1>9. Places(o, p)'
  <2>1. ASSUME NEW k \in Node, NEW m \in Node, o[k] = o[m], p[k] = p[m] PROVE k = m
    <3>1. CASE Mine(k) /\ Mine(m)
      <4>1. p[k] = pos[k] - pos[mine] + pos[x] + 1 /\ p[m] = pos[m] - pos[mine] + pos[x] + 1
        BY <1>6, <3>1
      <4>2. pos[k] \in Int /\ pos[m] \in Int /\ pos[mine] \in Int /\ pos[x] \in Int
        BY <1>7
      <4>3. \A a, b, c, d \in Int : a - c + d + 1 = b - c + d + 1 => a = b
        OBVIOUS
      <4>4. pos[k] - pos[mine] + pos[x] + 1 = pos[m] - pos[mine] + pos[x] + 1
        BY <2>1, <4>1
      <4>5. pos[k] = pos[m]
        BY ONLY <4>2, <4>3, <4>4
      <4> QED BY <1>1, <3>1, <4>5
    <3>2. CASE Mine(k) /\ ~Mine(m)
      BY <1>3, <1>6, <1>7, <1>8, <2>1, <3>2
    <3>3. CASE ~Mine(k) /\ Mine(m)
      BY <1>3, <1>6, <1>7, <1>8, <2>1, <3>3
    <3>4. CASE ~Mine(k) /\ ~Mine(m)
      BY <1>1, <1>6, <2>1, <3>4
    <3> QED BY <3>1, <3>2, <3>3, <3>4
  <2> QED BY <1>6, <2>1 DEF Places
<1>10. ASSUME NEW m \in Node, Mine(m) PROVE Linked(o, p, m, End)'
  <2>1. Linked(own, pos, m, End) /\ next'[m] = next[m]
    BY <1>1, <1>5, <1>7, <1>10 DEF Lists
  <2>2. CASE next[m] \in Node /\ own[next[m]] = own[m] /\ pos[next[m]] = pos[m] + 1
    <3>1. o[next[m]] = o[m] /\ p[next[m]] = p[m] + 1
      BY <1>6, <1>7, <1>10, <2>2
    <3> QED BY <2>1, <2>2, <3>1 DEF Linked
  <2>3. CASE next[m] = End /\ \A k \in Node : own[k] = own[m] => pos[k] <= pos[m]
    <3>1. ASSUME NEW k \in Node, o[k] = o[m] PROVE p[k] <= p[m]
      <4>1. CASE Mine(k)
        BY <1>6, <1>7, <1>10, <2>3, <4>1
      <4>2. CASE ~Mine(k)
        <5>1. own[k] = R
          BY <1>6, <1>10, <3>1, <4>2
        <5> QED BY <1>3, <1>6, <1>7, <1>8, <1>10, <4>2, <5>1
      <4> QED BY <4>1, <4>2
    <3> QED BY <2>1, <2>3, <3>1 DEF Linked
  <2> QED BY <2>1, <2>2, <2>3 DEF Linked
<1>11. ASSUME NEW m \in Node, own[m] = R PROVE Linked(o, p, m, End)'
  <2>1. CASE m = x
    <3>1. next'[m] = mine /\ o[mine] = R /\ o[m] = R /\ p[mine] = pos[x] + 1 /\ p[m] = pos[x]
      BY <1>5, <1>6, <1>7, <2>1
    <3> QED BY <3>1 DEF Linked
  <2>2. CASE m # x
    <3>1. Linked(own, pos, m, End) /\ next'[m] = next[m]
      BY <1>1, <1>3, <1>5, <1>11, <2>2 DEF Lists
    <3>2. pos[m] # pos[x] /\ pos[m] <= pos[x]
      BY <1>1, <1>3, <1>7, <1>11, <2>2
    <3>3. next[m] \in Node /\ own[next[m]] = own[m] /\ pos[next[m]] = pos[m] + 1
      BY <1>7, <1>11, <3>1, <3>2 DEF Linked
    <3>4. o[next[m]] = o[m] /\ p[next[m]] = p[m] + 1
      BY <1>6, <1>7, <1>11, <3>3
    <3> QED BY <3>1, <3>3, <3>4 DEF Linked
  <2> QED BY <2>1, <2>2
<1>12. ASSUME NEW m \in Node, own[m] # R, ~Mine(m), NEW e, Linked(own, pos, m, e)
       PROVE  Linked(o, p, m, e)'
  <2>1. next'[m] = next[m] /\ o[m] = own[m] /\ p[m] = pos[m]
    BY <1>5, <1>6, <1>7, <1>12
  <2>2. \A k \in Node : own[k] = own[m] <=> o[k] = o[m]
    BY <1>8, <1>12, <2>1
  <2>3. \A k \in Node : own[k] = own[m] => p[k] = pos[k]
    BY <1>6, <1>12
  <2> QED BY <1>12, <2>1, <2>2, <2>3 DEF Linked
<1>13. Lists(o, p)'
  <2> SUFFICES ASSUME NEW m \in Node
               PROVE  /\ o[m] = InQueue => Linked(o, p, m, End)'
                      /\ o[m] = OnFree => Linked(o, p, m, Null)'
                      /\ \A u \in Thread :
                           o[m] = Of(u) =>
                             /\ Owning(u)'
                             /\ Linking(u)' => Linked(o, p, m, End)'
                             /\ ~Linking(u)' => m = Held(u)' /\ next'[m] # End
                      /\ o[m] = Unmade <=> m >= made'
                      /\ o[m] = Unmade => next'[m] # End
    BY DEF Lists
  <2>1. /\ own[m] = InQueue => Linked(own, pos, m, End)
        /\ own[m] = OnFree => Linked(own, pos, m, Null)
        /\ \A u \in Thread :
             own[m] = Of(u) =>
               /\ Owning(u)
               /\ Linking(u) => Linked(own, pos, m, End)
               /\ ~Linking(u) => m = Held(u) /\ next[m] # End
        /\ own[m] = Unmade <=> m >= made
        /\ own[m] = Unmade => next[m] # End
    BY <1>1 DEF Lists
  <2>2. /\ o[m] = OnFree => own[m] = OnFree
        /\ o[m] = Unmade <=> own[m] = Unmade
    BY <1>3, <1>8, PlacesDiffer
  <2>3. CASE o[m] = R
    <3>1. Linked(o, p, m, End)'
      BY <1>8, <1>10, <1>11, <2>3
    <3>2. \A u \in Thread : R = Of(u) => u # t /\ Linking(u)' /\ Owning(u)'
      BY <1>3, <1>7, PlacesDiffer DEF Owning
    <3>3. R # OnFree /\ R # Unmade
      BY <1>3, PlacesDiffer
    <3> QED BY <2>1, <2>2, <2>3, <3>1, <3>2, <3>3
  <2>4. CASE o[m] # R
    <3>1. own[m] # R /\ ~Mine(m) /\ o[m] = own[m] /\ next'[m] = next[m]
      BY <1>5, <1>6, <1>7, <1>8, <2>4
    <3>2. \A e : Linked(own, pos, m, e) => Linked(o, p, m, e)'
      BY <1>12, <3>1
    <3>3. \A u \in Thread : own[m] = Of(u) => u # t
      BY <3>1
    <3> QED BY <2>1, <3>1, <3>2, <3>3
  <2> QED BY <2>3, <2>4
<1>14. ASSUME NEW h \in Node, ~Mine(h), Leads(own, pos, h) PROVE Leads(o, p, h)
  <2>1. ASSUME NEW m \in Node, o[m] = o[h] PROVE p[h] <= p[m]
    <3>1. CASE Mine(m)
      <4>1. own[h] = R
        BY <1>6, <1>14, <2>1, <3>1
      <4> QED BY <1>3, <1>6, <1>7, <1>8, <1>14, <3>1, <4>1
    <3>2. CASE ~Mine(m)
      BY <1>6, <1>14, <2>1, <3>2 DEF Leads
    <3> QED BY <3>1, <3>2
  <2> QED BY <2>1 DEF Leads
<1>15. Roots(o, p)'
  <2>1. o[head.node] = InQueue /\ Leads(o, p, head.node)
    <3>1. head.node \in Node /\ own[head.node] = InQueue /\ Leads(own, pos, head.node)
      BY <1>1 DEF Roots, Types, LinkType
    <3> QED BY <1>6, <1>14, <3>1, PlacesDiffer
  <2>2. free # Null => o[free] = OnFree /\ Leads(o, p, free)
    <3>1. free # Null => free \in Node /\ own[free] = OnFree /\ Leads(own, pos, free)
      BY <1>1 DEF Roots, Types
    <3> QED BY <1>6, <1>14, <3>1, PlacesDiffer
  <2>3. free = Null => \A m \in Node : o[m] # OnFree
    BY <1>1, <1>3, <1>8, PlacesDiffer DEF Roots
  <2>4. ASSUME NEW u \in Thread, Owning(u)'
        PROVE  Held(u)' \in Node /\ o[Held(u)'] = Of(u) /\ Leads(o, p, Held(u)')
    <3>1. u # t
      BY <2>4
    <3>2. Held(u) \in Node /\ own[Held(u)] = Of(u) /\ Leads(own, pos, Held(u))
      BY <1>1, <2>4, <3>1 DEF Roots
    <3>3. o[Held(u)] = Of(u) /\ Leads(o, p, Held(u))
      BY <1>6, <1>14, <3>1, <3>2, PlacesDiffer
    <3> QED BY <3>1, <3>2, <3>3
  <2> QED BY <2>1, <2>2, <2>3, <2>4 DEF Roots, Leads
<1> QED BY <1>9, <1>13, <1>15 DEF Shape

\* The items move with the nodes.
LEMMA ItemsMoved ==
  ASSUME NEW own, NEW o, Items(own), elem' = elem, pushed' = pushed, taken' = taken,
         \A m \in Node : Live(o, m)' <=> Live(own, m),
         \A u \in Thread : /\ Popped(u)' <=> Popped(u)
                           /\ Popped(u) => local'[u].elem = local[u].elem
  PROVE  Items(o)'
<1>1. Waiting' = Waiting
  BY DEF Waiting
<1> DEFINE W == Waiting
<1>2. /\ \A m \in Node : Live(own, m) => elem[m] \in W
      /\ \A k, m \in Node : Live(own, k) /\ Live(own, m) /\ elem[k] = elem[m] => k = m
      /\ \A u \in Thread : Popped(u) => local[u].elem \in W
      /\ \A u, v \in Thread : Popped(u) /\ Popped(v) /\ local[u].elem = local[v].elem => u = v
      /\ \A m \in Node, u \in Thread : Live(own, m) /\ Popped(u) => elem[m] # local[u].elem
      /\ \A j \in W : \/ \E m \in Node : Live(own, m) /\ elem[m] = j
                      \/ \E u \in Thread : Popped(u) /\ local[u].elem = j
  BY DEF Items
<1>3. Waiting' = W
  BY <1>1
<1> HIDE DEF W
<1> QED BY <1>2, <1>3 DEF Items

\* The node, and those behind it, come behind the last node read.
LEMMA AppendStep ==
  ASSUME NEW own, NEW pos, NEW older, Whole(own, pos, older), NEW t \in Thread, Append(t),
         next[local[t].node] = End
  PROVE  Inv'
<1> DEFINE r == [local[t] EXCEPT !.at = "finish"]
           mine == local[t].mine
           x == local[t].node
<1>1. /\ local' = [local EXCEPT ![t] = r]
      /\ next' = [next EXCEPT ![x] = mine]
      /\ elem' = elem /\ head' = head /\ tail' = tail /\ count' = count /\ free' = free
      /\ made' = made /\ left' = left /\ pushed' = pushed /\ taken' = taken
  BY DEF Append, Goto
<1>2. local[t].at = "append" /\ local[t] \in Local
  BY Reads DEF Append, At
<1>3. /\ r \in Local /\ r.mine = mine /\ r.node = x
      /\ r.sequence = local[t].sequence
  BY <1>2 DEF Local, Where
<1>4. r.at = "finish"
  BY <1>2 DEF Local
<1>5. /\ Types /\ Knowing /\ History /\ Counted /\ Shape(own, pos)
      /\ own[tail.node] = InQueue /\ Younger(own, older) /\ Items(own)
  BY DEF Whole
<1>6. local'[t] = r
  BY <1>1, <1>5 DEF Types
<1> HIDE DEF r
<1>7. /\ ~Marking(t) /\ Linking(t) /\ ~Popped(t) /\ Owning(t) /\ Held(t) = mine
      /\ ~Marking(t)' /\ ~Linking(t)' /\ ~Popped(t)' /\ ~Owning(t)'
      /\ At(t, "append") /\ ~At(t, "append")'
  BY <1>2, <1>4, <1>6 DEF Marking, Linking, Popped, Owning, Held, At
<1>8. \A u \in Thread : u # t =>
        /\ local'[u] = local[u]
        /\ (Marking(u)' <=> Marking(u)) /\ (Linking(u)' <=> Linking(u))
        /\ (Popped(u)' <=> Popped(u)) /\ (Owning(u)' <=> Owning(u))
        /\ Held(u)' = Held(u) /\ (At(u, "append")' <=> At(u, "append"))
  BY <1>1, <1>3, <1>5, RolesOf
<1>9. x \in Node /\ mine \in Node /\ own[mine] = Of(t) /\ next[x] = End
  <2>1. x \in Node
    BY <1>2, <1>5 DEF Knowing, KnowsTail
  <2> QED BY <1>5, <1>7, <2>1 DEF Shape, Roots
<1>10. own[x] # Of(t)
  BY <1>5, <1>7 DEF Younger, Strict
<1>11. own[x] = InQueue \/ \E c \in Thread : c # t /\ own[x] = Of(c) /\ Linking(c)
  BY <1>5, <1>9, <1>10, EndIsLast
<1>12. PICK o : o = MovedOwn(own, t, x)
  OBVIOUS
<1>13. PICK p : p = MovedPos(own, pos, t, mine, x)
  OBVIOUS
<1>14. Shape(o, p)'
  <2>1. Held(t) = local[t].mine /\ mine = local[t].mine
    BY <1>7
  <2> HIDE DEF x, mine
  <2> QED BY <1>1, <1>5, <1>7, <1>8, <1>9, <1>10, <1>12, <1>13, <2>1, AppendShape
<1>15. /\ next'[x] = mine /\ \A m \in Node : m # x => next'[m] = next[m]
  BY <1>1, <1>5, <1>9 DEF Types
<1> HIDE DEF x, mine
<1>16. /\ \A m \in Node : own[m] = Of(t) => o[m] = own[x]
       /\ \A m \in Node : own[m] # Of(t) => o[m] = own[m]
  BY <1>12 DEF MovedOwn
<1>17. Items(o)'
  <2>1. ASSUME NEW m \in Node PROVE Live(o, m)' <=> Live(own, m)
    <3>1. CASE own[m] = Of(t)
      <4>1. Live(own, m)
        BY <1>7, <3>1 DEF Live
      <4>2. CASE own[x] = InQueue
        <5>1. m # head.node
          BY <1>5, <3>1, PlacesDiffer DEF Shape, Roots
        <5> QED BY <1>1, <1>16, <3>1, <4>1, <4>2, <5>1 DEF Live
      <4>3. CASE \E c \in Thread : c # t /\ own[x] = Of(c) /\ Linking(c)
        <5>1. PICK c \in Thread : c # t /\ own[x] = Of(c) /\ Linking(c)
          BY <4>3
        <5>2. ~Popped(c)
          BY <5>1 DEF Linking, Popped
        <5> QED BY <1>8, <1>16, <3>1, <4>1, <5>1, <5>2 DEF Live
      <4> QED BY <1>11, <4>2, <4>3
    <3>2. CASE own[m] # Of(t)
      BY <1>1, <1>7, <1>8, <1>16, <3>2 DEF Live
    <3> QED BY <3>1, <3>2
  <2>2. \A u \in Thread : /\ Popped(u)' <=> Popped(u)
                          /\ Popped(u) => local'[u].elem = local[u].elem
    BY <1>7, <1>8
  <2> QED BY <1>1, <1>5, <2>1, <2>2, ItemsMoved
<1>18. Types'
  <2>1. next' \in [Node -> Node \cup {End, Null}]
    BY <1>1, <1>5, <1>9 DEF Types
  <2>2. local' \in [Thread -> Local]
    BY <1>1, <1>3, <1>5 DEF Types
  <2> QED BY <1>1, <1>5, <2>1, <2>2 DEF Types
<1>19. Knowing'
  <2>1. Calm(own)
    BY <1>1, <1>9, <1>15 DEF Calm
  <2>2. /\ local[t].sequence <= tail.sequence
        /\ local[t].sequence = tail.sequence => x = tail.node
    BY <1>2, <1>5 DEF Knowing, KnowsTail, x
  <2>3. KnowsTail(t)'
    <3>1. local'[t].at = "finish"
      BY <1>4, <1>6
    <3>2. local'[t].sequence <= tail'.sequence
      BY <1>1, <1>3, <1>6, <2>2
    <3>3. local'[t].node \in Node /\ local'[t].mine \in Node
      BY <1>3, <1>6, <1>9
    <3>4. local'[t].sequence = tail'.sequence => local'[t].node = tail'.node
      BY <1>1, <1>3, <1>6, <2>2
    <3>5. next'[local'[t].node] = local'[t].mine
      BY <1>3, <1>6, <1>15
    <3> QED BY <3>1, <3>2, <3>3, <3>4, <3>5 DEF KnowsTail
  <2>4. KnowsHead(t)'
    BY <1>4, <1>6 DEF KnowsHead
  <2> QED BY <1>8, <1>18, <2>1, <2>3, <2>4, KnowingKept
<1>20. History'
  BY <1>1, <1>5 DEF History, PoppedOnce
<1>21. Counted'
  <2>1. t \in Pushing /\ t \notin Freeing
    BY <1>2 DEF Pushing, Freeing, Linking, At
  <2> QED BY <1>1, <1>3, <1>4, <1>5, <2>1, CountedKept
<1>22. o[tail'.node] = InQueue
  BY <1>1, <1>5, <1>16, PlacesDiffer DEF Types, LinkType
<1>23. Younger(o, older)'
  <2>1. Strict(older)
    BY <1>5 DEF Younger
  <2>2. ASSUME NEW y \in Thread, NEW u \in Thread, At(y, "append")',
               o[local'[y].node] = Of(u), ~Popped(u)'
        PROVE  <<y, u>> \in older
    <3>1. y # t /\ At(y, "append") /\ local'[y] = local[y]
      BY <1>7, <1>8, <2>2
    <3>2. local[y].node \in Node
      BY <1>5, <3>1 DEF Knowing, KnowsTail, At
    <3>3. ~Popped(u)
      BY <1>7, <1>8, <2>2
    <3>4. CASE own[local[y].node] = Of(t)
      <4>1. <<y, t>> \in older
        BY <1>5, <1>7, <3>1, <3>4 DEF Younger
      <4>2. own[x] = Of(u)
        BY <1>16, <2>2, <3>1, <3>2, <3>4
      <4>3. <<t, u>> \in older
        BY <1>5, <1>7, <3>3, <4>2 DEF Younger, x
      <4> QED BY <2>1, <4>1, <4>3 DEF Strict
    <3>5. CASE own[local[y].node] # Of(t)
      BY <1>5, <1>16, <2>2, <3>1, <3>2, <3>3, <3>5 DEF Younger
    <3> QED BY <3>4, <3>5
  <2> QED BY <2>1, <2>2 DEF Younger
<1>24. Whole(o, p, older)'
  BY <1>14, <1>17, <1>18, <1>19, <1>20, <1>21, <1>22, <1>23 DEF Whole
<1> QED BY <1>24 DEF Inv

\* The queue without its first node.
LEMMA AdvanceShape ==
  ASSUME NEW own, NEW pos, Types, Shape(own, pos), NEW t \in Thread, NEW h \in Node,
         NEW y \in Node, h = head.node, next[h] = y, head'.node = y,
         ~Owning(t), ~Linking(t)', Owning(t)', Held(t)' = h,
         \A u \in Thread : u # t =>
           /\ (Linking(u)' <=> Linking(u)) /\ (Owning(u)' <=> Owning(u))
           /\ Held(u)' = Held(u),
         next' = next, free' = free, made' = made,
         NEW o, o = [own EXCEPT ![h] = Of(t)]
  PROVE  /\ Shape(o, pos)'
         /\ own[y] = InQueue /\ y # h
<1>1. /\ own \in [Node -> Place] /\ pos \in [Node -> Int]
      /\ \A k, m \in Node : own[k] = own[m] /\ pos[k] = pos[m] => k = m
      /\ Lists(own, pos) /\ Roots(own, pos)
  BY DEF Shape, Places
<1>2. own[h] = InQueue /\ \A m \in Node : own[m] = InQueue => pos[h] <= pos[m]
  BY <1>1 DEF Roots, Leads
<1>3. own[y] = InQueue /\ pos[y] = pos[h] + 1 /\ y # h
  <2>1. next[h] # End
    BY NodeFacts
  <2>2. own[y] = InQueue /\ pos[y] = pos[h] + 1
    BY <1>2, <2>1, QueueLinks
  <2> QED BY <1>1, <2>2
<1>4. \A m \in Node : own[m] # Of(t)
  BY <1>1 DEF Lists
<1>5. o \in [Node -> Place] /\ o[h] = Of(t) /\ \A m \in Node : m # h => o[m] = own[m]
  BY <1>1 DEF Place
<1>6. Places(o, pos)'
  BY <1>1, <1>4, <1>5 DEF Places
<1>7. \A m \in Node : pos[m] \in Int
  BY <1>1
<1>8. ASSUME NEW m \in Node, m # h, NEW e, Linked(own, pos, m, e)
      PROVE  Linked(o, pos, m, e)'
  <2>1. CASE next[m] = e /\ \A k \in Node : own[k] = own[m] => pos[k] <= pos[m]
    BY <1>4, <1>5, <1>8, <2>1 DEF Linked
  <2>2. CASE next[m] \in Node /\ own[next[m]] = own[m] /\ pos[next[m]] = pos[m] + 1
    <3>1. next[m] # h
      BY <1>2, <1>7, <2>2
    <3> QED BY <1>5, <1>8, <2>2, <3>1 DEF Linked
  <2> QED BY <1>8, <2>1, <2>2 DEF Linked
<1>9. Lists(o, pos)'
  <2> SUFFICES ASSUME NEW m \in Node
               PROVE  /\ o[m] = InQueue => Linked(o, pos, m, End)'
                      /\ o[m] = OnFree => Linked(o, pos, m, Null)'
                      /\ \A u \in Thread :
                           o[m] = Of(u) =>
                             /\ Owning(u)'
                             /\ Linking(u)' => Linked(o, pos, m, End)'
                             /\ ~Linking(u)' => m = Held(u)' /\ next'[m] # End
                      /\ o[m] = Unmade <=> m >= made'
                      /\ o[m] = Unmade => next'[m] # End
    BY DEF Lists
  <2>1. /\ own[m] = InQueue => Linked(own, pos, m, End)
        /\ own[m] = OnFree => Linked(own, pos, m, Null)
        /\ \A u \in Thread :
             own[m] = Of(u) =>
               /\ Owning(u)
               /\ Linking(u) => Linked(own, pos, m, End)
               /\ ~Linking(u) => m = Held(u) /\ next[m] # End
        /\ own[m] = Unmade <=> m >= made
        /\ own[m] = Unmade => next[m] # End
    BY <1>1 DEF Lists
  <2>2. CASE m = h
    <3>1. next[m] # End /\ ~(m >= made)
      BY <1>2, <2>1, <2>2, NodeFacts, PlacesDiffer
    <3> QED BY <1>5, <2>2, <3>1, PlacesDiffer
  <2>3. CASE m # h
    <3>1. \A e : Linked(own, pos, m, e) => Linked(o, pos, m, e)'
      BY <1>8, <2>3
    <3>2. o[m] = own[m] /\ own[m] # Of(t)
      BY <1>4, <1>5, <2>3
    <3> QED BY <2>1, <3>1, <3>2
  <2> QED BY <2>2, <2>3
<1>10. Roots(o, pos)'
  <2>1. o[y] = InQueue /\ \A m \in Node : o[m] = InQueue => pos[y] <= pos[m]
    <3>1. ASSUME NEW m \in Node, o[m] = InQueue PROVE pos[y] <= pos[m]
      <4>1. m # h /\ own[m] = InQueue
        BY <1>5, <3>1, PlacesDiffer
      <4>2. pos[h] <= pos[m] /\ pos[h] # pos[m]
        BY <1>1, <1>2, <4>1
      <4> QED BY <1>3, <1>7, <4>2
    <3> QED BY <1>3, <1>5, <3>1
  <2>2. \A m \in Node : o[m] = OnFree <=> own[m] = OnFree
    BY <1>2, <1>5, PlacesDiffer
  <2>3. free # Null => o[free] = OnFree /\ \A m \in Node : o[m] = OnFree => pos[free] <= pos[m]
    BY <1>1, <2>2 DEF Roots, Leads, Types
  <2>4. free = Null => \A m \in Node : o[m] # OnFree
    BY <1>1, <2>2 DEF Roots
  <2>5. ASSUME NEW u \in Thread, Owning(u)'
        PROVE  Held(u)' \in Node /\ o[Held(u)'] = Of(u)
               /\ \A m \in Node : o[m] = Of(u) => pos[Held(u)'] <= pos[m]
    <3>1. CASE u = t
      <4>1. \A m \in Node : o[m] = Of(t) => m = h
        BY <1>4, <1>5
      <4>2. pos[h] <= pos[h]
        BY <1>7
      <4> QED BY <1>5, <3>1, <4>1, <4>2
    <3>2. CASE u # t
      <4>1. Held(u) \in Node /\ own[Held(u)] = Of(u) /\ Leads(own, pos, Held(u))
        BY <1>1, <2>5, <3>2 DEF Roots
      <4>2. Held(u) # h /\ o[Held(u)] = Of(u)
        BY <1>2, <1>5, <4>1, PlacesDiffer
      <4>3. \A m \in Node : o[m] = Of(u) => own[m] = Of(u)
        BY <1>5, <3>2, PlacesDiffer
      <4> QED BY <3>2, <4>1, <4>2, <4>3 DEF Leads
    <3> QED BY <3>1, <3>2
  <2> QED BY <2>1, <2>3, <2>4, <2>5 DEF Roots, Leads
<1> QED BY <1>3, <1>6, <1>9, <1>10 DEF Shape

\* The item is in the hands of the thread that moved m_Head past its node.
LEMMA AdvanceItems ==
  ASSUME NEW own, NEW o, NEW t \in Thread, NEW y \in Node, Live(own, y), Items(own),
         elem' = elem, pushed' = pushed, taken' = taken, ~Popped(t), Popped(t)',
         local'[t].elem = elem[y],
         \A m \in Node : Live(o, m)' <=> Live(own, m) /\ m # y,
         \A u \in Thread : u # t => (Popped(u)' <=> Popped(u)) /\ local'[u] = local[u]
  PROVE  Items(o)'
<1>1. Waiting' = Waiting
  BY DEF Waiting
<1> DEFINE W == Waiting
<1>2. /\ \A m \in Node : Live(own, m) => elem[m] \in W
      /\ \A k, m \in Node : Live(own, k) /\ Live(own, m) /\ elem[k] = elem[m] => k = m
      /\ \A u \in Thread : Popped(u) => local[u].elem \in W
      /\ \A u, v \in Thread : Popped(u) /\ Popped(v) /\ local[u].elem = local[v].elem => u = v
      /\ \A m \in Node, u \in Thread : Live(own, m) /\ Popped(u) => elem[m] # local[u].elem
      /\ \A j \in W : \/ \E m \in Node : Live(own, m) /\ elem[m] = j
                      \/ \E u \in Thread : Popped(u) /\ local[u].elem = j
  BY DEF Items
<1>3. Waiting' = W
  BY <1>1
<1> HIDE DEF W
<1>4. \A u \in Thread : Popped(u)' <=> u = t \/ Popped(u)
  OBVIOUS
<1>5. \A m \in Node : Live(o, m)' => elem'[m] \in W
  BY <1>2
<1>6. \A k, m \in Node : Live(o, k)' /\ Live(o, m)' /\ elem'[k] = elem'[m] => k = m
  BY <1>2
<1>7. \A u \in Thread : Popped(u)' => local'[u].elem \in W
  BY <1>2, <1>4
<1>8. ASSUME NEW u \in Thread, NEW v \in Thread, Popped(u)', Popped(v)',
             local'[u].elem = local'[v].elem, u # v
      PROVE  FALSE
  <2>1. CASE u = t
    BY <1>2, <1>4, <1>8, <2>1
  <2>2. CASE v = t
    BY <1>2, <1>4, <1>8, <2>2
  <2>3. CASE u # t /\ v # t
    BY <1>2, <1>4, <1>8, <2>3
  <2> QED BY <2>1, <2>2, <2>3
<1>9. ASSUME NEW m \in Node, NEW u \in Thread, Live(o, m)', Popped(u)'
      PROVE  elem'[m] # local'[u].elem
  <2>1. CASE u = t
    BY <1>2, <1>9, <2>1
  <2>2. CASE u # t
    BY <1>2, <1>4, <1>9, <2>2
  <2> QED BY <2>1, <2>2
<1>10. ASSUME NEW j \in W
       PROVE  \/ \E m \in Node : Live(o, m)' /\ elem'[m] = j
              \/ \E u \in Thread : Popped(u)' /\ local'[u].elem = j
  <2>1. CASE j = elem[y]
    BY <1>4, <2>1
  <2>2. CASE j # elem[y]
    <3>1. CASE \E m \in Node : Live(own, m) /\ elem[m] = j
      <4>1. PICK m \in Node : Live(own, m) /\ elem[m] = j
        BY <3>1
      <4> QED BY <2>2, <4>1
    <3>2. CASE \E u \in Thread : Popped(u) /\ local[u].elem = j
      BY <1>4, <3>2
    <3> QED BY <1>2, <1>10, <3>1, <3>2
  <2> QED BY <2>1, <2>2
<1> QED BY <1>3, <1>5, <1>6, <1>7, <1>8, <1>9, <1>10 DEF Items

\* m_Head is moved on, and the node it had is the thread's.
LEMMA AdvanceStep ==
  ASSUME NEW own, NEW pos, NEW older, Whole(own, pos, older), NEW t \in Thread, Advance(t),
         head = Link(local[t].node, local[t].sequence)
  PROVE  Inv'
<1> DEFINE r == [local[t] EXCEPT !.at = "uncount"]
           h == local[t].node
           y == local[t].next
<1>1. /\ local' = [local EXCEPT ![t] = r]
      /\ head' = Link(y, local[t].sequence + 1)
      /\ next' = next /\ elem' = elem /\ tail' = tail /\ count' = count /\ free' = free
      /\ made' = made /\ left' = left /\ pushed' = pushed /\ taken' = taken
  BY DEF Advance, Goto
<1>2. local[t].at = "advance" /\ local[t] \in Local
  BY Reads DEF Advance, At
<1>3. r \in Local /\ r.node = h /\ r.elem = local[t].elem
  BY <1>2 DEF Local, Where
<1>4. r.at = "uncount"
  BY <1>2 DEF Local
<1>5. /\ Types /\ Knowing /\ History /\ Counted /\ Shape(own, pos)
      /\ own[tail.node] = InQueue /\ Younger(own, older) /\ Items(own)
  BY DEF Whole
<1>6. local'[t] = r
  BY <1>1, <1>5 DEF Types
<1> HIDE DEF r
<1>7. /\ ~Marking(t) /\ ~Linking(t) /\ ~Popped(t) /\ ~Owning(t)
      /\ ~Marking(t)' /\ ~Linking(t)' /\ Popped(t)' /\ Owning(t)' /\ Held(t)' = h
      /\ ~At(t, "append")'
  BY <1>2, <1>3, <1>4, <1>6 DEF Marking, Linking, Popped, Owning, Held, At
<1>8. \A u \in Thread : u # t =>
        /\ local'[u] = local[u]
        /\ (Marking(u)' <=> Marking(u)) /\ (Linking(u)' <=> Linking(u))
        /\ (Popped(u)' <=> Popped(u)) /\ (Owning(u)' <=> Owning(u))
        /\ Held(u)' = Held(u) /\ (At(u, "append")' <=> At(u, "append"))
  BY <1>1, <1>3, <1>5, RolesOf
<1>9. /\ h = head.node /\ local[t].sequence = head.sequence
  BY DEF Link
<1>10. /\ h \in Node /\ y \in Node /\ next[h] = y /\ tail.node # h
       /\ local[t].elem = elem[y]
  <2>1. KnowsHead(t)
    BY <1>5 DEF Knowing
  <2> QED BY <1>2, <1>9, <2>1 DEF KnowsHead
<1>11. head'.node = y /\ head'.sequence = head.sequence + 1
  BY <1>1, <1>9 DEF Link
<1> HIDE DEF h, y
<1>12. own \in [Node -> Place] /\ \A m \in Node : own[m] # Of(t)
  BY <1>5, <1>7 DEF Shape, Places, Lists
<1>13. PICK o : o = [own EXCEPT ![h] = Of(t)]
  OBVIOUS
<1>14. Shape(o, pos)' /\ own[y] = InQueue /\ y # h
  BY <1>1, <1>5, <1>7, <1>8, <1>9, <1>10, <1>11, <1>13, AdvanceShape
<1>15. o[h] = Of(t) /\ \A m \in Node : m # h => o[m] = own[m]
  BY <1>10, <1>12, <1>13
<1>16. Items(o)'
  <2>1. Live(own, y)
    BY <1>9, <1>14 DEF Live
  <2>2. ASSUME NEW m \in Node PROVE Live(o, m)' <=> Live(own, m) /\ m # y
    <3>1. CASE m = h
      <4>1. ~Live(own, m)
        BY <1>5, <1>9, <3>1, PlacesDiffer DEF Live, Shape, Roots
      <4>2. ~Live(o, m)'
        BY <1>7, <1>15, <3>1, PlacesDiffer DEF Live
      <4> QED BY <4>1, <4>2
    <3>2. CASE m # h
      <4>1. o[m] = own[m] /\ own[m] # Of(t)
        BY <1>12, <1>15, <3>2
      <4>2. CASE m = y
        BY <1>11, <1>14, <4>1, <4>2, PlacesDiffer DEF Live
      <4>3. CASE m # y
        BY <1>8, <1>9, <1>11, <3>2, <4>1, <4>3 DEF Live
      <4> QED BY <4>2, <4>3
    <3> QED BY <3>1, <3>2
  <2>3. local'[t].elem = elem[y]
    BY <1>3, <1>6, <1>10
  <2>4. \A u \in Thread : u # t => (Popped(u)' <=> Popped(u)) /\ local'[u] = local[u]
    BY <1>8
  <2> QED BY <1>1, <1>5, <1>7, <1>10, <2>1, <2>2, <2>3, <2>4, AdvanceItems
<1>17. Types'
  <2>1. head' \in LinkType
    <3>1. local[t].sequence \in Int
      BY <1>5, <1>9 DEF Types, LinkType
    <3> QED BY <1>1, <1>10, <3>1 DEF LinkType, Link
  <2>2. local' \in [Thread -> Local]
    BY <1>1, <1>3, <1>5 DEF Types
  <2> QED BY <1>1, <1>5, <2>1, <2>2 DEF Types
<1>18. Knowing'
  <2>1. Calm(own)
    BY <1>1, <1>10, <1>11 DEF Calm
  <2>2. KnowsTail(t)' /\ KnowsHead(t)'
    BY <1>4, <1>6 DEF KnowsTail, KnowsHead
  <2> QED BY <1>8, <1>17, <2>1, <2>2, KnowingKept
<1>19. History'
  BY <1>1, <1>5 DEF History, PoppedOnce
<1>20. Counted'
  <2>1. t \notin Pushing /\ t \notin Freeing
    BY <1>2 DEF Pushing, Freeing, Marking, Linking, At
  <2> QED BY <1>1, <1>3, <1>4, <1>5, <2>1, CountedKept
<1>21. o[tail'.node] = InQueue
  BY <1>1, <1>5, <1>10, <1>15 DEF Types, LinkType
<1>22. Younger(o, older)'
  <2>1. ASSUME NEW x \in Thread, NEW u \in Thread, At(x, "append")',
               o[local'[x].node] = Of(u), ~Popped(u)'
        PROVE  <<x, u>> \in older
    <3>1. x # t /\ At(x, "append") /\ local'[x] = local[x] /\ u # t
      BY <1>7, <1>8, <2>1
    <3>2. local[x].node \in Node
      BY <1>5, <3>1 DEF Knowing, KnowsTail, At
    <3>3. own[local[x].node] = Of(u) /\ ~Popped(u)
      BY <1>8, <1>15, <2>1, <3>1, <3>2, PlacesDiffer
    <3> QED BY <1>5, <3>1, <3>3 DEF Younger
  <2> QED BY <1>5, <2>1 DEF Younger
<1>23. Whole(o, pos, older)'
  BY <1>14, <1>16, <1>17, <1>18, <1>19, <1>20, <1>21, <1>22 DEF Whole
<1> QED BY <1>23 DEF Inv

\* The free list with the node on top.
LEMMA FreeShape ==
  ASSUME NEW own, NEW pos, Types, Shape(own, pos), NEW t \in Thread, NEW n \in Node,
         Owning(t), ~Linking(t), Held(t) = n, ~Owning(t)',
         \A u \in Thread : u # t =>
           /\ (Linking(u)' <=> Linking(u)) /\ (Owning(u)' <=> Owning(u))
           /\ Held(u)' = Held(u),
         next' = [next EXCEPT ![n] = free], free' = n, head' = head, made' = made,
         NEW o, o = [own EXCEPT ![n] = OnFree],
         NEW q, q = [pos EXCEPT ![n] = IF free = Null THEN 0 ELSE pos[free] - 1]
  PROVE  Shape(o, q)'
<1>1. /\ own \in [Node -> Place] /\ pos \in [Node -> Int]
      /\ \A k, m \in Node : own[k] = own[m] /\ pos[k] = pos[m] => k = m
      /\ Lists(own, pos) /\ Roots(own, pos)
  BY DEF Shape, Places
<1>2. own[n] = Of(t) /\ \A m \in Node : own[m] = Of(t) => m = n
  BY <1>1 DEF Roots, Lists
<1>3. /\ free \in Node \cup {Null}
      /\ free # Null => own[free] = OnFree /\ \A m \in Node : own[m] = OnFree => pos[free] <= pos[m]
  BY <1>1 DEF Types, Roots, Leads
<1>4. /\ o \in [Node -> Place] /\ o[n] = OnFree /\ \A m \in Node : m # n => o[m] = own[m]
      /\ q \in [Node -> Int] /\ \A m \in Node : m # n => q[m] = pos[m]
      /\ q[n] = IF free = Null THEN 0 ELSE pos[free] - 1
  <2> DEFINE z == IF free = Null THEN 0 ELSE pos[free] - 1
  <2>1. z \in Int
    BY <1>1, <1>3
  <2> HIDE DEF z
  <2>2. q = [pos EXCEPT ![n] = z]
    BY DEF z
  <2>3. q[n] = z /\ q \in [Node -> Int] /\ \A m \in Node : m # n => q[m] = pos[m]
    BY <1>1, <2>1, <2>2
  <2>4. o \in [Node -> Place] /\ o[n] = OnFree /\ \A m \in Node : m # n => o[m] = own[m]
    BY <1>1 DEF Place
  <2> QED BY <2>3, <2>4 DEF z
<1>5. /\ next'[n] = free /\ \A m \in Node : m # n => next'[m] = next[m]
  BY DEF Types
<1>6. \A m \in Node : pos[m] \in Int
  BY <1>1
<1>7. ASSUME NEW m \in Node, own[m] = OnFree PROVE q[n] < pos[m]
  <2>1. free # Null
    BY <1>1, <1>7 DEF Roots
  <2>2. q[n] = pos[free] - 1 /\ pos[free] <= pos[m] /\ free \in Node
    BY <1>3, <1>4, <1>7, <2>1
  <2>3. pos[free] \in Int /\ pos[m] \in Int
    BY <1>6, <2>2
  <2> QED BY <2>2, <2>3
<1>8. \A m \in Node : o[m] = OnFree <=> m = n \/ own[m] = OnFree
  BY <1>4
<1>9. Places(o, q)'
  <2>1. ASSUME NEW k \in Node, NEW m \in Node, o[k] = o[m], q[k] = q[m] PROVE k = m
    <3>1. CASE k = n
      BY <1>4, <1>6, <1>7, <2>1, <3>1
    <3>2. CASE m = n
      BY <1>4, <1>6, <1>7, <2>1, <3>2
    <3>3. CASE k # n /\ m # n
      BY <1>1, <1>4, <2>1, <3>3
    <3> QED BY <3>1, <3>2, <3>3
  <2> QED BY <1>4, <2>1 DEF Places
<1>10. ASSUME NEW m \in Node, m # n, NEW e, Linked(own, pos, m, e)
       PROVE  Linked(o, q, m, e)'
  <2>1. CASE next[m] = e /\ \A k \in Node : own[k] = own[m] => pos[k] <= pos[m]
    <3>1. ASSUME NEW k \in Node, o[k] = o[m] PROVE q[k] <= q[m]
      <4>1. CASE k = n
        <5>1. own[m] = OnFree
          BY <1>4, <1>10, <3>1, <4>1
        <5>2. q[n] < pos[m] /\ q[m] = pos[m] /\ q[n] \in Int /\ pos[m] \in Int
          BY <1>4, <1>6, <1>7, <1>10, <5>1
        <5> QED BY <4>1, <5>2
      <4>2. CASE k # n
        BY <1>4, <1>10, <2>1, <3>1, <4>2
      <4> QED BY <4>1, <4>2
    <3> QED BY <1>5, <1>10, <2>1, <3>1 DEF Linked
  <2>2. CASE next[m] \in Node /\ own[next[m]] = own[m] /\ pos[next[m]] = pos[m] + 1
    <3>1. next[m] # n
      BY <1>2, <1>10, <2>2
    <3> QED BY <1>4, <1>5, <1>10, <2>2, <3>1 DEF Linked
  <2> QED BY <1>10, <2>1, <2>2 DEF Linked
<1>11. Linked(o, q, n, Null)'
  <2>1. CASE free = Null
    <3>1. \A k \in Node : o[k] = o[n] => k = n
      BY <1>1, <1>4, <1>8, <2>1 DEF Roots
    <3>2. q[n] <= q[n]
      BY <1>4
    <3> QED BY <1>5, <2>1, <3>1, <3>2 DEF Linked
  <2>2. CASE free # Null
    <3>1. free \in Node /\ free # n
      BY <1>2, <1>3, <2>2, PlacesDiffer
    <3>2. o[free] = o[n] /\ q[free] = q[n] + 1
      BY <1>3, <1>4, <1>6, <2>2, <3>1
    <3> QED BY <1>5, <3>1, <3>2 DEF Linked
  <2> QED BY <2>1, <2>2
<1>12. Lists(o, q)'
  <2> SUFFICES ASSUME NEW m \in Node
               PROVE  /\ o[m] = InQueue => Linked(o, q, m, End)'
                      /\ o[m] = OnFree => Linked(o, q, m, Null)'
                      /\ \A u \in Thread :
                           o[m] = Of(u) =>
                             /\ Owning(u)'
                             /\ Linking(u)' => Linked(o, q, m, End)'
                             /\ ~Linking(u)' => m = Held(u)' /\ next'[m] # End
                      /\ o[m] = Unmade <=> m >= made'
                      /\ o[m] = Unmade => next'[m] # End
    BY DEF Lists
  <2>1. /\ own[m] = InQueue => Linked(own, pos, m, End)
        /\ own[m] = OnFree => Linked(own, pos, m, Null)
        /\ \A u \in Thread :
             own[m] = Of(u) =>
               /\ Owning(u)
               /\ Linking(u) => Linked(own, pos, m, End)
               /\ ~Linking(u) => m = Held(u) /\ next[m] # End
        /\ own[m] = Unmade <=> m >= made
        /\ own[m] = Unmade => next[m] # End
    BY <1>1 DEF Lists
  <2>2. CASE m = n
    <3>1. ~(m >= made)
      BY <1>2, <2>1, <2>2, PlacesDiffer
    <3> QED BY <1>4, <1>11, <2>2, <3>1, PlacesDiffer
  <2>3. CASE m # n
    <3>1. \A e : Linked(own, pos, m, e) => Linked(o, q, m, e)'
      BY <1>10, <2>3
    <3>2. o[m] = own[m] /\ own[m] # Of(t) /\ next'[m] = next[m]
      BY <1>2, <1>4, <1>5, <2>3
    <3> QED BY <2>1, <3>1, <3>2
  <2> QED BY <2>2, <2>3
<1>13. ASSUME NEW h \in Node, Leads(own, pos, h), own[h] # OnFree, h # n
       PROVE  Leads(o, q, h) /\ o[h] = own[h]
  BY <1>4, <1>13 DEF Leads
<1>14. Roots(o, q)'
  <2>1. o[head.node] = InQueue /\ Leads(o, q, head.node)
    <3>1. head.node \in Node /\ own[head.node] = InQueue /\ Leads(own, pos, head.node)
      BY <1>1 DEF Roots, Types, LinkType
    <3> QED BY <1>2, <1>13, <3>1, PlacesDiffer
  <2>2. o[n] = OnFree /\ Leads(o, q, n)
    <3>1. ASSUME NEW m \in Node, o[m] = OnFree PROVE q[n] <= q[m]
      <4>1. CASE m = n
        BY <1>4, <4>1
      <4>2. CASE m # n
        <5>1. q[n] < pos[m] /\ q[m] = pos[m] /\ q[n] \in Int /\ pos[m] \in Int
          BY <1>4, <1>6, <1>7, <3>1, <4>2
        <5> QED BY <5>1
      <4> QED BY <4>1, <4>2
    <3> QED BY <1>4, <3>1 DEF Leads
  <2>3. ASSUME NEW u \in Thread, Owning(u)'
        PROVE  Held(u)' \in Node /\ o[Held(u)'] = Of(u) /\ Leads(o, q, Held(u)')
    <3>1. u # t
      BY <2>3
    <3>2. Held(u) \in Node /\ own[Held(u)] = Of(u) /\ Leads(own, pos, Held(u))
      BY <1>1, <2>3, <3>1 DEF Roots
    <3>3. o[Held(u)] = Of(u) /\ Leads(o, q, Held(u))
      BY <1>2, <1>13, <3>1, <3>2, PlacesDiffer
    <3> QED BY <3>1, <3>2, <3>3
  <2> QED BY <2>1, <2>2, <2>3, NodeFacts DEF Roots, Leads
<1> QED BY <1>9, <1>12, <1>14 DEF Shape

\* The item is gone from the thread that freed its node, and is not waiting any more.
LEMMA FreeItems ==
  ASSUME NEW own, NEW o, Types, NEW t \in Thread, NEW n \in Node, ~Live(own, n), Items(own),
         NEW i, i = local[t].elem, Waiting' = Waiting \ {i},
         \A m \in Node : m # n => elem'[m] = elem[m],
         Popped(t), ~Popped(t)',
         \A m \in Node : Live(o, m)' <=> Live(own, m),
         \A u \in Thread : u # t => (Popped(u)' <=> Popped(u)) /\ local'[u] = local[u]
  PROVE  Items(o)'
<1> DEFINE W == Waiting
<1>1. /\ \A m \in Node : Live(own, m) => elem[m] \in W
      /\ \A k, m \in Node : Live(own, k) /\ Live(own, m) /\ elem[k] = elem[m] => k = m
      /\ \A u \in Thread : Popped(u) => local[u].elem \in W
      /\ \A u, v \in Thread : Popped(u) /\ Popped(v) /\ local[u].elem = local[v].elem => u = v
      /\ \A m \in Node, u \in Thread : Live(own, m) /\ Popped(u) => elem[m] # local[u].elem
      /\ \A j \in W : \/ \E m \in Node : Live(own, m) /\ elem[m] = j
                      \/ \E u \in Thread : Popped(u) /\ local[u].elem = j
  BY DEF Items
<1>2. Waiting' = W \ {i}
  OBVIOUS
<1> HIDE DEF W
<1>3. \A m \in Node : Live(own, m) => elem'[m] = elem[m] /\ elem[m] # i
  BY <1>1
<1>4. \A u \in Thread : Popped(u)' <=> u # t /\ Popped(u)
  OBVIOUS
<1>5. \A u \in Thread : Popped(u)' => local'[u].elem = local[u].elem /\ local[u].elem # i
  BY <1>1, <1>4
<1>6. \A m \in Node : Live(o, m)' => elem'[m] \in W \ {i}
  BY <1>1, <1>3
<1>7. \A k, m \in Node : Live(o, k)' /\ Live(o, m)' /\ elem'[k] = elem'[m] => k = m
  BY <1>1, <1>3
<1>8. \A u \in Thread : Popped(u)' => local'[u].elem \in W \ {i}
  BY <1>1, <1>4, <1>5
<1>9. \A u, v \in Thread : Popped(u)' /\ Popped(v)' /\ local'[u].elem = local'[v].elem => u = v
  BY <1>1, <1>4, <1>5
<1>10. \A m \in Node, u \in Thread : Live(o, m)' /\ Popped(u)' => elem'[m] # local'[u].elem
  BY <1>1, <1>3, <1>4, <1>5
<1>11. ASSUME NEW j \in W \ {i}
       PROVE  \/ \E m \in Node : Live(o, m)' /\ elem'[m] = j
              \/ \E u \in Thread : Popped(u)' /\ local'[u].elem = j
  <2>1. CASE \E m \in Node : Live(own, m) /\ elem[m] = j
    BY <1>3, <2>1
  <2>2. CASE \E u \in Thread : Popped(u) /\ local[u].elem = j
    <3>1. PICK u \in Thread : Popped(u) /\ local[u].elem = j
      BY <2>2
    <3>2. u # t
      BY <1>11, <3>1
    <3> QED BY <1>4, <1>5, <3>1, <3>2
  <2> QED BY <1>1, <1>11, <2>1, <2>2
<1> QED BY <1>2, <1>6, <1>7, <1>8, <1>9, <1>10, <1>11 DEF Items

\* The item is popped, and its node is free.
LEMMA FreeNodeStep ==
  ASSUME NEW own, NEW pos, NEW older, Whole(own, pos, older), NEW t \in Thread, FreeNode(t)
  PROVE  Inv'
<1> DEFINE r == Returned("item")
           n == local[t].node
           i == local[t].elem
<1>1. /\ local' = [local EXCEPT ![t] = r]
      /\ elem' = [elem EXCEPT ![n] = i]
      /\ next' = [next EXCEPT ![n] = free]
      /\ free' = n
      /\ taken' = [taken EXCEPT ![i] = @ + 1]
      /\ head' = head /\ tail' = tail /\ count' = count
      /\ made' = made /\ left' = left /\ pushed' = pushed
  BY DEF FreeNode, Return
<1>2. local[t].at = "free"
  BY DEF FreeNode, At
<1>3. r \in Local /\ r.at = "idle"
  BY ReturnedLocal
<1>4. /\ Types /\ Knowing /\ History /\ Counted /\ Shape(own, pos)
      /\ own[tail.node] = InQueue /\ Younger(own, older) /\ Items(own)
  BY DEF Whole
<1>5. local'[t] = r
  BY <1>1, <1>4 DEF Types
<1> HIDE DEF r
<1>6. /\ ~Marking(t) /\ ~Linking(t) /\ Popped(t) /\ Owning(t) /\ Held(t) = n
      /\ ~Marking(t)' /\ ~Linking(t)' /\ ~Popped(t)' /\ ~Owning(t)' /\ ~At(t, "append")'
  BY <1>2, <1>3, <1>5 DEF Marking, Linking, Popped, Owning, Held, At
<1>7. \A u \in Thread : u # t =>
        /\ local'[u] = local[u]
        /\ (Marking(u)' <=> Marking(u)) /\ (Linking(u)' <=> Linking(u))
        /\ (Popped(u)' <=> Popped(u)) /\ (Owning(u)' <=> Owning(u))
        /\ Held(u)' = Held(u) /\ (At(u, "append")' <=> At(u, "append"))
  BY <1>1, <1>3, <1>4, RolesOf
<1>8. n \in Node /\ own[n] = Of(t)
  BY <1>4, <1>6 DEF Shape, Roots
<1>9. i \in Waiting /\ i \in Item /\ i \in pushed /\ taken[i] = 0
  BY <1>4, <1>6 DEF Items, Waiting, Types
<1>10. own \in [Node -> Place] /\ \A m \in Node : own[m] = Of(t) => m = n
  BY <1>4, <1>6 DEF Shape, Places, Lists
<1> HIDE DEF n
<1>11. PICK o : o = [own EXCEPT ![n] = OnFree]
  OBVIOUS
<1>12. PICK q : q = [pos EXCEPT ![n] = IF free = Null THEN 0 ELSE pos[free] - 1]
  OBVIOUS
<1>13. Shape(o, q)'
  BY <1>1, <1>4, <1>6, <1>7, <1>8, <1>11, <1>12, FreeShape
<1>14. o[n] = OnFree /\ \A m \in Node : m # n => o[m] = own[m]
  BY <1>8, <1>10, <1>11
<1> HIDE DEF i
<1>15. /\ taken'[i] = 1 /\ \A j \in Item : j # i => taken'[j] = taken[j]
       /\ \A m \in Node : m # n => elem'[m] = elem[m] /\ next'[m] = next[m]
  BY <1>1, <1>4, <1>8, <1>9 DEF Types
<1>16. Waiting' = Waiting \ {i}
  BY <1>1, <1>4, <1>9, <1>15 DEF Waiting, Types
<1>17. Items(o)'
  <2>1. ASSUME NEW m \in Node PROVE Live(o, m)' <=> Live(own, m)
    <3>1. CASE m = n
      BY <1>6, <1>8, <1>14, <3>1, PlacesDiffer DEF Live
    <3>2. CASE m # n
      <4>1. o[m] = own[m] /\ own[m] # Of(t)
        BY <1>10, <1>14, <3>2
      <4> QED BY <1>1, <1>7, <4>1 DEF Live
    <3> QED BY <3>1, <3>2
  <2>2. ~Live(own, n)
    BY <1>6, <1>8, PlacesDiffer DEF Live
  <2>3. i = local[t].elem
    BY DEF i
  <2>4. \A u \in Thread : u # t => (Popped(u)' <=> Popped(u)) /\ local'[u] = local[u]
    BY <1>7
  <2>5. \A m \in Node : m # n => elem'[m] = elem[m]
    BY <1>15
  <2> QED BY <1>4, <1>6, <1>8, <1>16, <2>1, <2>2, <2>3, <2>4, <2>5, FreeItems
<1>18. Types'
  <2>1. elem' \in [Node -> Item \cup {Null}]
    BY <1>1, <1>4, <1>9 DEF Types
  <2>2. local' \in [Thread -> Local]
    BY <1>1, <1>3, <1>4 DEF Types
  <2>3. next' \in [Node -> Node \cup {End, Null}]
    BY <1>1, <1>4 DEF Types
  <2>4. taken' \in [Item -> Nat]
    BY <1>1, <1>4, <1>9 DEF Types
  <2> QED BY <1>1, <1>4, <1>8, <2>1, <2>2, <2>3, <2>4 DEF Types
<1>19. Knowing'
  <2>1. Calm(own)
    BY <1>1, <1>8, <1>15, PlacesDiffer DEF Calm
  <2>2. KnowsTail(t)' /\ KnowsHead(t)'
    BY <1>3, <1>5 DEF KnowsTail, KnowsHead
  <2> QED BY <1>7, <1>18, <2>1, <2>2, KnowingKept
<1>20. History'
  <2>1. \A j \in Item : taken[j] <= (IF j \in pushed THEN 1 ELSE 0)
    BY <1>4 DEF History, PoppedOnce
  <2>2. PoppedOnce'
    BY <1>1, <1>9, <1>15, <2>1 DEF PoppedOnce
  <2> QED BY <1>1, <1>4, <2>2 DEF History
<1>21. Counted'
  <2>1. t \notin Pushing /\ t \in Freeing
    BY <1>2 DEF Pushing, Freeing, Marking, Linking, At
  <2>2. Pushing' = Pushing \ {t} /\ Freeing' = Freeing \ {t}
    BY <1>1, <1>3, <1>4, CountMoves
  <2>3. IsFiniteSet(Waiting) /\ IsFiniteSet(Pushing) /\ IsFiniteSet(Freeing)
    BY <1>4, FiniteCounts
  <2> DEFINE W == Cardinality(Waiting)
             P == Cardinality(Pushing)
             F == Cardinality(Freeing)
             Wn == Cardinality(Waiting')
             Pn == Cardinality(Pushing')
             Fn == Cardinality(Freeing')
  <2>4. W = count + P + F /\ W \in Nat /\ P \in Nat /\ F \in Nat
    BY <1>4, FiniteCounts DEF Counted
  <2>5. Wn = W - 1
    BY <1>9, <1>16, <2>3, OneMore
  <2>6. Pn = P
    BY <2>1, <2>2, <2>3, OneMore
  <2>7. Fn = F - 1
    BY <2>1, <2>2, <2>3, OneMore
  <2>8. count' = count /\ count \in Int
    BY <1>1, <1>4 DEF Types
  <2> HIDE DEF W, P, F, Wn, Pn, Fn
  <2>9. Wn = count' + Pn + Fn
    BY <2>4, <2>5, <2>6, <2>7, <2>8
  <2> QED BY <2>9 DEF Counted, Wn, Pn, Fn
<1>22. o[tail'.node] = InQueue
  <2>1. tail.node \in Node /\ tail.node # n
    BY <1>4, <1>8, PlacesDiffer DEF Types, LinkType
  <2> QED BY <1>1, <1>4, <1>14, <2>1
<1>23. Younger(o, older)'
  <2>1. ASSUME NEW x \in Thread, NEW u \in Thread, At(x, "append")',
               o[local'[x].node] = Of(u), ~Popped(u)'
        PROVE  <<x, u>> \in older
    <3>1. x # t /\ At(x, "append") /\ local'[x] = local[x]
      BY <1>6, <1>7, <2>1
    <3>2. local[x].node \in Node
      BY <1>4, <3>1 DEF Knowing, KnowsTail, At
    <3>3. local[x].node # n /\ own[local[x].node] = Of(u)
      BY <1>14, <2>1, <3>1, <3>2, PlacesDiffer
    <3>4. u # t
      BY <1>10, <3>2, <3>3
    <3>5. ~Popped(u)
      BY <1>7, <2>1, <3>4
    <3> QED BY <1>4, <3>1, <3>3, <3>5 DEF Younger
  <2> QED BY <1>4, <2>1 DEF Younger
<1>24. Whole(o, q, older)'
  BY <1>13, <1>17, <1>18, <1>19, <1>20, <1>21, <1>22, <1>23 DEF Whole
<1> QED BY <1>24 DEF Inv

-----------------------------------------------------------------------------
(* The invariant holds *)

\* At the beginning one node is in the queue and the others are not made.
LEMMA InitInv ==
  ASSUME Init
  PROVE  Inv
<1>1. /\ next = [n \in Node |-> IF n = 0 THEN End ELSE Null]
      /\ elem = [n \in Node |-> Null]
      /\ head = Link(0, 0) /\ tail = Link(0, 0) /\ count = 0 /\ free = Null /\ made = 1
      /\ local = [t \in Thread |-> Returned(Null)]
      /\ left \in Budgets /\ pushed = {} /\ taken = [i \in Item |-> 0]
  BY DEF Init
<1>2. 0 \in Node
  BY NodeFacts
<1>3. \A t \in Thread : local[t] \in Local /\ local[t].at = "idle"
  BY <1>1, ReturnedLocal
<1>4. \A t \in Thread : ~Marking(t) /\ ~Linking(t) /\ ~Popped(t) /\ ~Owning(t)
                         /\ ~At(t, "append")
  BY <1>3 DEF Marking, Linking, Popped, Owning, At
<1>5. head.node = 0 /\ tail.node = 0
  BY <1>1 DEF Link
<1>6. Types
  <2>1. next \in [Node -> Node \cup {End, Null}] /\ elem \in [Node -> Item \cup {Null}]
    BY <1>1
  <2>2. head \in LinkType /\ tail \in LinkType
    BY <1>1, <1>2 DEF LinkType, Link
  <2>3. count \in Int /\ free \in Node \cup {Null} /\ made \in 1 .. MaxNodes
    BY <1>1, NodeFacts
  <2>4. local \in [Thread -> Local]
    BY <1>1, ReturnedLocal
  <2>5. left \in [Thread -> 0 .. MaxCalls]
    BY <1>1, TSQueueAssumption
  <2>6. pushed \in SUBSET Item /\ taken \in [Item -> Nat]
    BY <1>1
  <2> QED BY <2>1, <2>2, <2>3, <2>4, <2>5, <2>6 DEF Types
<1>7. Knowing
  BY <1>3 DEF Knowing, KnowsTail, KnowsHead
<1>8. History
  BY <1>1 DEF History, PoppedOnce
<1>9. Counted
  <2>1. Waiting = {} /\ Pushing = {} /\ Freeing = {}
    BY <1>1, <1>3 DEF Waiting, Pushing, Freeing, Marking, Linking, At
  <2>2. Cardinality({}) = 0
    BY FS_EmptySet
  <2> QED BY <1>1, <2>1, <2>2 DEF Counted
<1> DEFINE own == [n \in Node |-> IF n = 0 THEN InQueue ELSE Unmade]
           pos == [n \in Node |-> n]
<1>10. /\ own \in [Node -> Place] /\ pos \in [Node -> Int]
       /\ \A n \in Node : own[n] = IF n = 0 THEN InQueue ELSE Unmade
       /\ \A n \in Node : pos[n] = n
  BY NodeFacts DEF Place
<1> HIDE DEF own, pos
<1>11. \A n \in Node : (own[n] = InQueue <=> n = 0) /\ own[n] # OnFree
                       /\ (\A t \in Thread : own[n] # Of(t)) /\ (own[n] = Unmade <=> n # 0)
  BY <1>10, PlacesDiffer
<1>12. Shape(own, pos)
  <2>1. Places(own, pos)
    BY <1>10 DEF Places
  <2>2. Linked(own, pos, 0, End)
    BY <1>1, <1>2, <1>10, <1>11 DEF Linked
  <2>3. \A n \in Node : n # 0 <=> n >= made
    BY <1>1, NodeFacts
  <2>4. \A n \in Node : n # 0 => next[n] # End
    BY <1>1, NodeFacts
  <2>5. Lists(own, pos)
    BY <1>11, <2>2, <2>3, <2>4 DEF Lists
  <2>6. Leads(own, pos, 0)
    BY <1>2, <1>10, <1>11 DEF Leads
  <2>7. Roots(own, pos)
    BY <1>1, <1>2, <1>4, <1>5, <1>11, <2>6 DEF Roots
  <2> QED BY <2>1, <2>5, <2>7 DEF Shape
<1>13. own[tail.node] = InQueue
  BY <1>2, <1>5, <1>11
<1>14. Younger(own, {})
  BY <1>4 DEF Younger, Strict
<1>15. Items(own)
  <2>1. \A n \in Node : ~Live(own, n)
    BY <1>5, <1>11 DEF Live
  <2>2. Waiting = {}
    BY <1>1 DEF Waiting
  <2> QED BY <1>4, <2>1, <2>2 DEF Items
<1>16. Whole(own, pos, {})
  BY <1>6, <1>7, <1>8, <1>9, <1>12, <1>13, <1>14, <1>15 DEF Whole
<1> QED BY <1>16 DEF Inv

\* A step that changes nothing.
LEMMA StutterInv ==
  ASSUME NEW own, NEW pos, NEW older, Whole(own, pos, older), UNCHANGED vars
  PROVE  Whole(own, pos, older)'
<1>1. /\ next' = next /\ elem' = elem /\ head' = head /\ tail' = tail /\ count' = count
      /\ free' = free /\ made' = made /\ local' = local /\ left' = left
      /\ pushed' = pushed /\ taken' = taken
  BY DEF vars
<1>2. /\ Types /\ Knowing /\ History /\ Counted /\ Shape(own, pos)
      /\ own[tail.node] = InQueue /\ Younger(own, older) /\ Items(own)
  BY DEF Whole
<1>3. \A u \in Thread :
        /\ Marking(u)' <=> Marking(u)
        /\ Linking(u)' <=> Linking(u)
        /\ Popped(u)' <=> Popped(u)
        /\ Owning(u)' <=> Owning(u)
        /\ Held(u)' = Held(u)
        /\ At(u, "append")' <=> At(u, "append")
  BY <1>1 DEF Marking, Linking, Popped, Owning, Held, At
<1>4. Types'
  BY <1>1, <1>2 DEF Types
<1>5. Knowing'
  BY <1>1, <1>2 DEF Knowing, KnowsTail, KnowsHead
<1>6. History'
  BY <1>1, <1>2 DEF History, PoppedOnce
<1>7. Counted'
  <2>1. Waiting' = Waiting /\ Pushing' = Pushing /\ Freeing' = Freeing
    BY <1>1 DEF Waiting, Pushing, Freeing, Marking, Linking, At
  <2> QED BY <1>1, <1>2, <2>1 DEF Counted
<1>8. Shape(own, pos)'
  BY <1>1, <1>2, <1>3, ShapeKept
<1>9. Younger(own, older)'
  BY <1>1, <1>2, <1>3 DEF Younger
<1>10. Items(own)'
  BY <1>1, <1>2, <1>3, ItemsKept
<1> QED BY <1>1, <1>2, <1>4, <1>5, <1>6, <1>7, <1>8, <1>9, <1>10 DEF Whole

\* Every step keeps the invariant.
LEMMA NextInv ==
  ASSUME Inv, [Next]_vars
  PROVE  Inv'
<1>1. PICK own, pos, older : Whole(own, pos, older)
  BY DEF Inv
<1>2. CASE UNCHANGED vars
  BY <1>1, <1>2, StutterInv DEF Inv
<1>3. ASSUME NEW t \in Thread, PushItem(t) PROVE Inv'
  BY <1>1, <1>3, PushItemStep
<1>4. ASSUME NEW t \in Thread, PopItem(t) PROVE Inv'
  BY <1>1, <1>4, PopItemStep DEF Inv
<1>5. ASSUME NEW t \in Thread, PushStep(t) PROVE Inv'
  <2>1. CASE Mark(t)
    BY <1>1, <2>1, MarkStep DEF Inv
  <2>2. CASE ReadTailSequence(t)
    BY <1>1, <2>2, ReadTailSequenceStep DEF Inv
  <2>3. CASE ReadTailNode(t)
    BY <1>1, <2>3, ReadTailNodeStep DEF Inv
  <2>4. CASE Append(t)
    <3>1. CASE next[local[t].node] = End
      BY <1>1, <2>4, <3>1, AppendStep
    <3>2. CASE next[local[t].node] # End
      BY <1>1, <2>4, <3>2, AppendHelps DEF Inv
    <3> QED BY <3>1, <3>2
  <2>5. CASE Help(t)
    BY <1>1, <2>5, HelpStep DEF Inv
  <2>6. CASE HelpFinish(t)
    BY <1>1, <2>6, HelpFinishStep DEF Inv
  <2>7. CASE Finish(t)
    BY <1>1, <2>7, FinishStep DEF Inv
  <2>8. CASE CountPush(t)
    BY <1>1, <2>8, CountPushStep DEF Inv
  <2> QED BY <1>5, <2>1, <2>2, <2>3, <2>4, <2>5, <2>6, <2>7, <2>8 DEF PushStep
<1>6. ASSUME NEW t \in Thread, PopStep(t) PROVE Inv'
  <2>1. CASE Again(t)
    BY <1>1, <2>1, AgainStep DEF Inv
  <2>2. CASE ReadHeadNode(t)
    BY <1>1, <2>2, ReadHeadNodeStep DEF Inv
  <2>3. CASE ReadPopTailSequence(t)
    BY <1>1, <2>3, ReadPopTailSequenceStep DEF Inv
  <2>4. CASE ReadNext(t)
    BY <1>1, <2>4, ReadNextStep DEF Inv
  <2>5. CASE Recheck(t)
    BY <1>1, <2>5, RecheckStep DEF Inv
  <2>6. CASE Compare(t)
    BY <1>1, <2>6, CompareStep DEF Inv
  <2>7. CASE PopHelp(t)
    BY <1>1, <2>7, PopHelpStep DEF Inv
  <2>8. CASE ReadElement(t)
    BY <1>1, <2>8, ReadElementStep DEF Inv
  <2>9. CASE Advance(t)
    <3>1. CASE head = Link(local[t].node, local[t].sequence)
      BY <1>1, <2>9, <3>1, AdvanceStep
    <3>2. CASE head # Link(local[t].node, local[t].sequence)
      BY <1>1, <2>9, <3>2, AdvanceAgain DEF Inv
    <3> QED BY <3>1, <3>2
  <2>10. CASE Uncount(t)
    BY <1>1, <2>10, UncountStep DEF Inv
  <2>11. CASE FreeNode(t)
    BY <1>1, <2>11, FreeNodeStep
  <2> QED BY <1>6, <2>1, <2>2, <2>3, <2>4, <2>5, <2>6, <2>7, <2>8, <2>9, <2>10, <2>11
          DEF PopStep
<1> QED BY <1>2, <1>3, <1>4, <1>5, <1>6 DEF Next, Step

\* The invariant is one.
THEOREM QueueInvariant == Spec => []Inv
<1>1. Init => Inv
  BY InitInv
<1>2. Inv /\ [Next]_vars => Inv'
  BY NextInv
<1> QED BY <1>1, <1>2, PTL DEF Spec

-----------------------------------------------------------------------------
(* What follows at once *)

\* TypeOK follows.
LEMMA TypesGiveTypeOK == Inv => TypeOK
<1> SUFFICES ASSUME Inv PROVE TypeOK
  OBVIOUS
<1>1. Types
  BY DEF Inv, Whole
<1>2. \A t \in Thread : local[t] \in Local
  BY <1>1 DEF Types
<1>3. \A t \in Thread : /\ local[t].node \in Node \cup {Null} /\ local[t].mine \in Node \cup {Null}
                        /\ local[t].elem \in Item \cup {Null}
  BY <1>2 DEF Local
<1>4. head.node \in Node /\ tail.node \in Node
  BY <1>1 DEF Types, LinkType
<1> QED BY <1>1, <1>3, <1>4 DEF Types, TypeOK

\* The values are of their types: m_Head and m_Tail are always nodes.
THEOREM QueueTypeOK == Spec => []TypeOK
BY QueueInvariant, TypesGiveTypeOK, PTL

\* No item is popped twice, and none that was not pushed.
THEOREM QueuePoppedOnce == Spec => []PoppedOnce
<1>1. Inv => PoppedOnce
  BY DEF Inv, Whole, History
<1> QED BY <1>1, QueueInvariant, PTL

-----------------------------------------------------------------------------
(* The nodes Chain finds *)

\* The nodes of a place.
In(own, n) == {m \in Node : own[m] = own[n]}

\* A list: n is the first of its place, and every node there is followed by another or
\* ends in stop.
List(own, pos, n, stop) ==
  /\ Places(own, pos) /\ n \in Node /\ Leads(own, pos, n)
  /\ stop \in {End, Null}
  /\ \A m \in In(own, n) : Linked(own, pos, m, stop)

\* Positions are numbers, the least the first node's.
LEMMA ListPositions ==
  ASSUME NEW own, NEW pos, NEW n, NEW stop, List(own, pos, n, stop)
  PROVE  /\ \A m \in In(own, n) : pos[m] \in Int /\ pos[n] <= pos[m]
         /\ n \in In(own, n)
         /\ \A m \in In(own, n) : m \in Node /\ own[m] = own[n]
BY DEF List, Places, Leads, In

\* One link leads from a node to the one behind it.
LEMMA ListLinks ==
  ASSUME NEW own, NEW pos, NEW n, NEW stop, List(own, pos, n, stop), NEW m \in In(own, n)
  PROVE  \/ next[m] \in In(own, n) /\ pos[next[m]] = pos[m] + 1
         \/ next[m] = stop /\ \A q \in In(own, n) : pos[q] <= pos[m]
BY DEF List, Linked, In

\* Positions have no gap: every node but the first has one before it.
LEMMA ListBefore ==
  ASSUME NEW own, NEW pos, NEW n, NEW stop, List(own, pos, n, stop),
         NEW m \in In(own, n), m # n
  PROVE  \E q \in In(own, n) : pos[q] = pos[m] - 1 /\ next[q] = m
<1> DEFINE R == In(own, n)
           Gaps == {d \in Nat \ {0} : \E q \in R : pos[q] = pos[m] - d}
<1> HIDE DEF R
<1>1. /\ \A q \in R : pos[q] \in Int /\ pos[n] <= pos[q]
      /\ n \in R /\ m \in R
  BY ListPositions DEF R
<1>2. pos[n] < pos[m]
  <2>1. pos[n] # pos[m]
    BY DEF List, Places, In
  <2> QED BY <1>1, <2>1
<1>3. pos[m] - pos[n] \in Gaps
  <2>1. pos[m] - pos[n] \in Nat \ {0} /\ pos[n] = pos[m] - (pos[m] - pos[n])
    BY <1>1, <1>2
  <2> QED BY <1>1, <2>1
<1>4. PICK d \in Gaps : \A e \in Gaps : d <= e
  BY <1>3, LeastNumber
<1>5. PICK q \in R : pos[q] = pos[m] - d
  BY <1>4
<1>6. d \in Nat /\ d >= 1 /\ pos[q] \in Int /\ pos[m] \in Int
  BY <1>1, <1>4, <1>5
<1>7. next[q] \in R /\ pos[next[q]] = pos[q] + 1
  <2>1. ~(pos[m] <= pos[q])
    BY <1>5, <1>6
  <2> QED BY <1>1, <2>1, ListLinks DEF R
<1>8. d = 1
  <2> SUFFICES ASSUME d # 1 PROVE FALSE
    OBVIOUS
  <2>1. d - 1 \in Nat \ {0} /\ pos[next[q]] = pos[m] - (d - 1)
    BY <1>5, <1>6, <1>7
  <2>2. d - 1 \in Gaps
    BY <1>7, <2>1
  <2>3. d <= d - 1
    BY <1>4, <2>2
  <2> QED BY <1>6, <2>3
<1>9. pos[q] = pos[m] - 1 /\ pos[next[q]] = pos[m]
  BY <1>5, <1>6, <1>7, <1>8
<1>10. next[q] = m
  BY <1>1, <1>7, <1>9 DEF List, Places, In, R
<1> QED BY <1>5, <1>9, <1>10 DEF R

\* A place has a last node.
LEMMA ListLast ==
  ASSUME NEW own, NEW pos, NEW n, NEW stop, List(own, pos, n, stop),
         NEW bound \in Int, \A m \in In(own, n) : pos[m] <= bound
  PROVE  \E m \in In(own, n) : next[m] = stop
<1> DEFINE R == In(own, n)
           Left == {d \in Nat : \E q \in R : pos[q] = bound - d}
<1> HIDE DEF R
<1>1. /\ \A q \in R : pos[q] \in Int /\ pos[q] <= bound
      /\ n \in R
  BY ListPositions DEF R
<1>2. bound - pos[n] \in Left
  <2>1. bound - pos[n] \in Nat /\ pos[n] = bound - (bound - pos[n])
    BY <1>1
  <2> QED BY <1>1, <2>1
<1>3. PICK d \in Left : \A e \in Left : d <= e
  BY <1>2, LeastNumber
<1>4. PICK q \in R : pos[q] = bound - d
  BY <1>3
<1>5. ASSUME next[q] \in R, pos[next[q]] = pos[q] + 1 PROVE FALSE
  <2>1. pos[next[q]] = bound - (d - 1) /\ d \in Nat
    BY <1>3, <1>4, <1>5
  <2>2. pos[next[q]] <= bound
    BY <1>1, <1>5
  <2>3. d - 1 \in Nat
    BY <2>1, <2>2
  <2>4. d - 1 \in Left
    BY <1>5, <2>1, <2>3
  <2>5. d <= d - 1
    BY <1>3, <2>4
  <2> QED BY <2>1, <2>5
<1> QED BY <1>4, <1>5, ListLinks DEF R

\* Node has MaxNodes elements.
LEMMA NodeCount == Cardinality(Node) = MaxNodes
<1>1. MaxNodes - 1 \in Int /\ 0 \in Int /\ ~(0 > MaxNodes - 1) /\ MaxNodes \in Nat
  BY NodeFacts
<1>2. Cardinality(0 .. MaxNodes - 1) = (MaxNodes - 1) - 0 + 1
  BY <1>1, FS_Interval
<1> QED BY <1>1, <1>2 DEF Node

\* There are no more positions in a list than there are nodes.
LEMMA ListShort ==
  ASSUME NEW own, NEW pos, NEW n, NEW stop, List(own, pos, n, stop), NEW m \in In(own, n)
  PROVE  pos[m] < pos[n] + MaxNodes
<1> DEFINE R == In(own, n)
           d == pos[m] - pos[n]
           Gaps == {e \in 0 .. d : \A q \in R : pos[q] # pos[m] - e}
<1> HIDE DEF R
<1>1. /\ \A q \in R : pos[q] \in Int /\ pos[n] <= pos[q]
      /\ n \in R /\ m \in R /\ R \subseteq Node
  BY ListPositions DEF R, In
<1>2. d \in Nat /\ pos[m] \in Int /\ pos[n] \in Int /\ pos[m] = pos[n] + d
  BY <1>1
<1> HIDE DEF d
<1>3. Gaps = {}
  <2> SUFFICES ASSUME Gaps # {} PROVE FALSE
    OBVIOUS
  <2>0. Gaps \in SUBSET Nat
    BY <1>2
  <2>1. PICK e \in Gaps : \A g \in Gaps : e <= g
    <3> HIDE DEF Gaps
    <3> QED BY <2>0, LeastNumber
  <2>2. e \in 0 .. d /\ e # 0
    BY <1>1, <1>2, <2>1
  <2>3. e - 1 \in 0 .. d /\ e - 1 \notin Gaps /\ e - 1 < d
    BY <1>2, <2>1, <2>2
  <2>4. PICK q \in R : pos[q] = pos[m] - (e - 1)
    BY <2>3
  <2>5. q # n
    BY <1>2, <2>2, <2>3, <2>4
  <2>6. PICK p \in R : pos[p] = pos[q] - 1
    BY <2>5, ListBefore DEF R
  <2>7. pos[p] = pos[m] - e
    BY <1>2, <2>2, <2>4, <2>6
  <2> QED BY <2>1, <2>7
<1>4. \A e \in 0 .. d : \E q \in R : pos[q] = pos[m] - e
  BY <1>3
<1> DEFINE at == [e \in 0 .. d |-> CHOOSE q \in R : pos[q] = pos[m] - e]
<1>5. \A e \in 0 .. d : at[e] \in R /\ pos[at[e]] = pos[m] - e
  BY <1>4
<1> HIDE DEF at, Gaps
<1>6. at \in [0 .. d -> Node]
  BY <1>1, <1>5 DEF at
<1>7. \A e, g \in 0 .. d : at[e] = at[g] => e = g
  BY <1>2, <1>5
<1>8. at \in Injection(0 .. d, Node)
  BY <1>6, <1>7 DEF Injection, IsInjective
<1>9. Cardinality(0 .. d) <= MaxNodes
  BY <1>8, NodeFacts, NodeCount, FS_Injection
<1>10. Cardinality(0 .. d) = d + 1
  <2>1. Cardinality(0 .. d) = d - 0 + 1
    BY <1>2, FS_Interval
  <2> QED BY <1>2, <2>1
<1>11. d < MaxNodes
  BY <1>2, <1>9, <1>10, NodeFacts
<1> QED BY <1>2, <1>11, NodeFacts

\* The nodes reached in k steps are those of the first k + 1 positions.
Reached(own, pos, n, k) == {m \in In(own, n) : pos[m] <= pos[n] + k}

\* One step more reaches one position more.
LEMMA ReachedStep ==
  ASSUME NEW own, NEW pos, NEW n, NEW stop, List(own, pos, n, stop), NEW k \in Nat, k # 0
  PROVE  Reached(own, pos, n, k)
           = Reached(own, pos, n, k - 1)
               \cup ({next[m] : m \in Reached(own, pos, n, k - 1)} \ {End, Null})
<1> DEFINE R == In(own, n)
           old == Reached(own, pos, n, k - 1)
           new == {next[m] : m \in old} \ {End, Null}
<1>1. /\ \A q \in R : pos[q] \in Int /\ pos[n] <= pos[q]
      /\ n \in R /\ R \subseteq Node /\ stop \in {End, Null}
  BY ListPositions DEF In, List
<1> HIDE DEF R
<1>2. \A m : m \in old <=> m \in R /\ pos[m] <= pos[n] + (k - 1)
  BY DEF Reached, R
<1>3. \A m : m \in Reached(own, pos, n, k) <=> m \in R /\ pos[m] <= pos[n] + k
  BY DEF Reached, R
<1> HIDE DEF old
<1>4. ASSUME NEW m \in old PROVE m \in Reached(own, pos, n, k)
  BY <1>1, <1>2, <1>3, <1>4
<1>5. ASSUME NEW m \in old, next[m] \notin {End, Null}
      PROVE  next[m] \in Reached(own, pos, n, k)
  <2>1. m \in R /\ pos[m] <= pos[n] + (k - 1)
    BY <1>2, <1>5
  <2>2. next[m] \in R /\ pos[next[m]] = pos[m] + 1
    BY <1>1, <1>5, <2>1, ListLinks DEF R
  <2>3. pos[next[m]] <= pos[n] + k
    BY <1>1, <2>1, <2>2
  <2> QED BY <1>3, <2>2, <2>3
<1>6. ASSUME NEW m \in Reached(own, pos, n, k), m \notin old PROVE m \in new
  <2>1. m \in R /\ pos[m] <= pos[n] + k /\ ~(pos[m] <= pos[n] + (k - 1))
    BY <1>2, <1>3, <1>6
  <2>2. m # n
    BY <1>1, <2>1
  <2>3. PICK q \in R : pos[q] = pos[m] - 1 /\ next[q] = m
    BY <2>1, <2>2, ListBefore DEF R
  <2>4. pos[q] <= pos[n] + (k - 1)
    BY <1>1, <2>1, <2>3
  <2>5. q \in old
    BY <1>2, <2>4
  <2>6. m \notin {End, Null}
    BY <1>1, <2>1, NodeFacts
  <2> QED BY <2>3, <2>5, <2>6
<1> QED BY <1>4, <1>5, <1>6 DEF old

\* g[k] is what is reached from n in k steps.
IsReach(g, n) ==
  g = [k \in 0 .. MaxNodes |->
         IF k = 0 THEN {n} \ {End, Null}
         ELSE g[k - 1] \cup ({next[m] : m \in g[k - 1]} \ {End, Null})]

\* Chain is the last value of such a function.
LEMMA ChainIs ==
  ASSUME NEW n, NEW h, IsReach(h, n)
  PROVE  \E g : IsReach(g, n) /\ Chain(n) = g[MaxNodes]
<1> DEFINE g == CHOOSE f : IsReach(f, n)
<1>1. IsReach(g, n)
  OBVIOUS
<1>2. Chain(n) = g[MaxNodes]
  BY DEF Chain, IsReach
<1> QED BY <1>1, <1>2

\* There is only one.
LEMMA ReachUnique ==
  ASSUME NEW n, NEW g, NEW h, IsReach(g, n), IsReach(h, n)
  PROVE  \A k \in 0 .. MaxNodes : g[k] = h[k]
<1> DEFINE Differ == {k \in 0 .. MaxNodes : g[k] # h[k]}
<1> SUFFICES ASSUME Differ # {} PROVE FALSE
  OBVIOUS
<1>0. Differ \in SUBSET Nat
  BY NodeFacts
<1>1. PICK k \in Differ : \A d \in Differ : k <= d
  <2> HIDE DEF Differ
  <2> QED BY <1>0, LeastNumber
<1>2. k \in 0 .. MaxNodes /\ g[k] # h[k] /\ MaxNodes \in Nat
  BY <1>1, NodeFacts
<1>3. g[k] = IF k = 0 THEN {n} \ {End, Null}
             ELSE g[k - 1] \cup ({next[m] : m \in g[k - 1]} \ {End, Null})
  BY <1>2 DEF IsReach
<1>4. h[k] = IF k = 0 THEN {n} \ {End, Null}
             ELSE h[k - 1] \cup ({next[m] : m \in h[k - 1]} \ {End, Null})
  BY <1>2 DEF IsReach
<1>5. k # 0
  BY <1>2, <1>3, <1>4
<1>6. k - 1 \in 0 .. MaxNodes /\ ~(k <= k - 1)
  BY <1>2, <1>5
<1>7. g[k - 1] = h[k - 1]
  BY <1>1, <1>6
<1> QED BY <1>2, <1>3, <1>4, <1>5, <1>7

\* From the first node of a list, Chain finds the list.
LEMMA ChainIsList ==
  ASSUME NEW own, NEW pos, NEW n, NEW stop, List(own, pos, n, stop)
  PROVE  Chain(n) = In(own, n)
<1> DEFINE h == [k \in 0 .. MaxNodes |-> Reached(own, pos, n, k)]
           R == In(own, n)
<1>1. /\ \A q \in R : pos[q] \in Int /\ pos[n] <= pos[q]
      /\ n \in R /\ n \in Node /\ MaxNodes \in Nat
  BY ListPositions, NodeFacts DEF List
<1>2. Reached(own, pos, n, 0) = {n} \ {End, Null}
  <2>1. ASSUME NEW m \in R, pos[m] <= pos[n] + 0 PROVE m = n
    <3>1. pos[m] = pos[n] /\ own[m] = own[n] /\ m \in Node
      BY <1>1, <2>1, ListPositions
    <3> QED BY <1>1, <3>1 DEF List, Places
  <2>2. pos[n] <= pos[n] + 0
    BY <1>1
  <2> QED BY <1>1, <2>1, <2>2, NodeFacts DEF Reached
<1>3. IsReach(h, n)
  <2>1. \A k \in 0 .. MaxNodes : k # 0 => k \in Nat /\ k - 1 \in 0 .. MaxNodes
    BY <1>1
  <2>2. \A k \in 0 .. MaxNodes :
          Reached(own, pos, n, k)
            = IF k = 0 THEN {n} \ {End, Null}
              ELSE h[k - 1] \cup ({next[m] : m \in h[k - 1]} \ {End, Null})
    BY <1>2, <2>1, ReachedStep
  <2> QED BY <2>2 DEF IsReach
<1>4. PICK g : IsReach(g, n) /\ Chain(n) = g[MaxNodes]
  BY <1>3, ChainIs
<1>5. MaxNodes \in 0 .. MaxNodes
  BY <1>1
<1>6. Chain(n) = Reached(own, pos, n, MaxNodes)
  <2> HIDE DEF h
  <2>1. g[MaxNodes] = h[MaxNodes]
    BY <1>3, <1>4, <1>5, ReachUnique
  <2> USE DEF h
  <2> QED BY <1>4, <1>5, <2>1
<1>7. \A m \in R : pos[m] <= pos[n] + MaxNodes
  <2>1. \A m \in R : pos[m] < pos[n] + MaxNodes
    BY ListShort
  <2> QED BY <1>1, <2>1
<1> QED BY <1>6, <1>7 DEF Reached

\* From no node, Chain finds none.
LEMMA ChainOfNull == Chain(Null) = {}
<1> DEFINE h == [k \in 0 .. MaxNodes |-> {}]
<1>1. IsReach(h, Null)
  <2>1. \A k \in 0 .. MaxNodes : k # 0 => k - 1 \in 0 .. MaxNodes
    BY NodeFacts
  <2> QED BY <2>1 DEF IsReach
<1>2. PICK g : IsReach(g, Null) /\ Chain(Null) = g[MaxNodes]
  BY <1>1, ChainIs
<1>3. MaxNodes \in 0 .. MaxNodes
  BY NodeFacts
<1> HIDE DEF h
<1>4. g[MaxNodes] = h[MaxNodes]
  BY <1>1, <1>2, <1>3, ReachUnique
<1> QED BY <1>2, <1>3, <1>4 DEF h

-----------------------------------------------------------------------------
(* The queue, from outside *)

\* The nodes from m_Head on are those whose place is the queue; one is the last.
LEMMA QueueChain ==
  ASSUME NEW own, NEW pos, Shape(own, pos), Types
  PROVE  /\ Chain(head.node) = {n \in Node : own[n] = InQueue}
         /\ \E n \in Chain(head.node) : next[n] = End
<1>1. head.node \in Node /\ own[head.node] = InQueue /\ Leads(own, pos, head.node)
  BY DEF Types, LinkType, Shape, Roots
<1>2. In(own, head.node) = {n \in Node : own[n] = InQueue}
  BY <1>1 DEF In
<1>3. List(own, pos, head.node, End)
  BY <1>1, <1>2 DEF List, Shape, Lists
<1>4. Chain(head.node) = In(own, head.node)
  BY <1>3, ChainIsList
<1>5. \E n \in In(own, head.node) : next[n] = End
  <2>1. \A n \in In(own, head.node) : pos[n] < pos[head.node] + MaxNodes
    BY <1>3, ListShort
  <2>2. pos[head.node] \in Int /\ MaxNodes \in Nat
    BY <1>1, NodeFacts DEF Shape, Places
  <2>3. \A n \in In(own, head.node) : pos[n] \in Int
    BY <1>3, ListPositions
  <2>4. pos[head.node] + MaxNodes \in Int
        /\ \A n \in In(own, head.node) : pos[n] <= pos[head.node] + MaxNodes
    BY <2>1, <2>2, <2>3
  <2> QED BY <1>3, <2>4, ListLast
<1> QED BY <1>2, <1>4, <1>5

\* The nodes from m_FreeNodes on are those whose place is the free list.
LEMMA FreeChain ==
  ASSUME NEW own, NEW pos, Shape(own, pos), Types
  PROVE  Chain(free) = {n \in Node : own[n] = OnFree}
<1>1. CASE free = Null
  BY <1>1, ChainOfNull DEF Shape, Roots
<1>2. CASE free # Null
  <2>1. free \in Node /\ own[free] = OnFree /\ Leads(own, pos, free)
    BY <1>2 DEF Types, Shape, Roots
  <2>2. In(own, free) = {n \in Node : own[n] = OnFree}
    BY <2>1 DEF In
  <2>3. List(own, pos, free, Null)
    BY <2>1, <2>2 DEF List, Shape, Lists
  <2> QED BY <2>2, <2>3, ChainIsList
<1> QED BY <1>1, <1>2

\* The list is whole: its end and m_Tail are in it, and no node that is free, popped or
\* still to be appended.
LEMMA WholeGivesListWhole == Inv => ListWhole
<1> SUFFICES ASSUME NEW own, NEW pos, NEW older, Whole(own, pos, older) PROVE ListWhole
  BY DEF Inv
<1>1. Types /\ Shape(own, pos) /\ own[tail.node] = InQueue
  BY DEF Whole
<1> DEFINE list == Chain(head.node)
<1>2. list = {n \in Node : own[n] = InQueue} /\ \E n \in list : next[n] = End
  BY <1>1, QueueChain
<1>3. Chain(free) = {n \in Node : own[n] = OnFree}
  BY <1>1, FreeChain
<1> HIDE DEF list
<1>4. tail.node \in list
  BY <1>1, <1>2 DEF Types, LinkType
<1>5. list \cap Chain(free) = {}
  BY <1>2, <1>3, PlacesDiffer
<1>6. \A t \in Thread : Owning(t) => Held(t) \notin list
  BY <1>1, <1>2, PlacesDiffer DEF Shape, Roots
<1>7. ASSUME NEW t \in Thread,
             local[t].at \in {"mark", "tail sequence", "tail node", "append", "help",
                              "help finish"}
      PROVE  local[t].mine \notin list
  <2>1. Owning(t) /\ ~Popped(t)
    BY <1>7 DEF Owning, Marking, Linking, Popped, At
  <2> QED BY <1>6, <2>1 DEF Held
<1>8. ASSUME NEW t \in Thread, local[t].at \in {"uncount", "free"}
      PROVE  local[t].node \notin list
  <2>1. Owning(t) /\ Popped(t)
    BY <1>8 DEF Owning, Popped
  <2> QED BY <1>6, <2>1 DEF Held
<1> QED BY <1>2, <1>4, <1>5, <1>7, <1>8 DEF ListWhole, list

\* What a thread reads of m_Head or m_Tail is in the queue, and the queue ends.
THEOREM QueueListWhole == Spec => []ListWhole
BY QueueInvariant, WholeGivesListWhole, PTL

\* When every call has returned, the nodes behind the first hold the items that wait, one
\* each, and m_Count is their number.
LEMMA WholeGivesNothingLost == Inv => NothingLost
<1> SUFFICES ASSUME NEW own, NEW pos, NEW older, Whole(own, pos, older), Quiet
             PROVE  NothingLost
  BY DEF Inv, NothingLost
<1>1. Types /\ Shape(own, pos) /\ Counted /\ Items(own)
  BY DEF Whole
<1> DEFINE list == Chain(head.node) \ {head.node}
<1>2. \A t \in Thread : ~Owning(t) /\ ~Popped(t) /\ t \notin Pushing /\ t \notin Freeing
  BY DEF Quiet, Idle, At, Owning, Marking, Linking, Popped, Pushing, Freeing
<1>3. \A n \in Node, t \in Thread : own[n] # Of(t)
  BY <1>1, <1>2 DEF Shape, Lists
<1>4. Chain(head.node) = {n \in Node : own[n] = InQueue}
  BY <1>1, QueueChain
<1>5. \A n : n \in list <=> n \in Node /\ Live(own, n)
  BY <1>3, <1>4 DEF Live
<1> HIDE DEF list
<1>6. {elem[n] : n \in list} = Waiting
  <2>1. \A n \in list : elem[n] \in Waiting
    BY <1>1, <1>5 DEF Items
  <2>2. \A i \in Waiting : \E n \in list : elem[n] = i
    BY <1>1, <1>2, <1>5 DEF Items
  <2> QED BY <2>1, <2>2
<1>7. Cardinality(list) = Cardinality(Waiting)
  <2> DEFINE item == [n \in list |-> elem[n]]
  <2>1. \A m, n \in list : elem[m] = elem[n] => m = n
    BY <1>1, <1>5 DEF Items
  <2>2. item \in Injection(list, Waiting)
    BY <1>6, <2>1 DEF Injection, IsInjective
  <2>3. item \in Surjection(list, Waiting)
    BY <1>6 DEF Surjection
  <2>4. ExistsBijection(list, Waiting)
    BY <2>2, <2>3 DEF Bijection, ExistsBijection
  <2>5. IsFiniteSet(list)
    BY <1>5, NodeFacts, FS_Subset
  <2> QED BY <2>4, <2>5, FS_Bijection
<1>8. count = Cardinality(Waiting)
  <2>1. Pushing = {} /\ Freeing = {}
    BY <1>2 DEF Pushing, Freeing
  <2>2. Cardinality(Pushing) = 0 /\ Cardinality(Freeing) = 0
    BY <2>1, FS_EmptySet
  <2> QED BY <1>1, <2>2 DEF Counted, Types
<1> QED BY <1>6, <1>7, <1>8 DEF NothingLost, Waiting, list

\* No item is lost, and m_Count counts them.
THEOREM QueueNothingLost == Spec => []NothingLost
BY QueueInvariant, WholeGivesNothingLost, PTL

-----------------------------------------------------------------------------
(* Under a CJobQueue *)

\* A step of CJobQueue is a step of its CTSQueue, or leaves it alone.
LEMMA JobStepIsQueueStep == [JNext]_jvars => [Next]_vars
<1> SUFFICES ASSUME [JNext]_jvars PROVE [Next]_vars
  OBVIOUS
<1>1. CASE UNCHANGED jvars
  BY <1>1 DEF jvars
<1>2. ASSUME NEW t \in Thread,
             \/ Push(t) \/ CountItem(t) \/ Reserve(t) \/ Look(t) \/ Found(t) \/ PutBack(t)
             \/ Step(t) /\ UNCHANGED <<nItems, call>>
      PROVE  Next \/ UNCHANGED vars
  <2>1. CASE Push(t) \/ Look(t) \/ Step(t)
    BY <2>1 DEF Push, Look, Next
  <2>2. CASE CountItem(t) \/ Reserve(t) \/ Found(t) \/ PutBack(t)
    BY <2>2 DEF CountItem, Reserve, Found, PutBack
  <2> QED BY <1>2, <2>1, <2>2
<1> QED BY <1>1, <1>2 DEF JNext

\* CJobQueue uses its CTSQueue as TSQueue says it may be used.
THEOREM JobQueueUsesQueue == JSpec => Init /\ [][Next]_vars
<1>1. JInit => Init
  BY DEF JInit
<1> QED BY <1>1, JobStepIsQueueStep, PTL DEF JSpec

\* The calls a CJobQueue makes lose no item, and no item twice: when its Pop finds the
\* queues empty against its assertion, the item is there all the same.
THEOREM JobQueueKeepsItems == JSpec => [](ListWhole /\ PoppedOnce /\ NothingLost)
<1>1. Init => Inv
  BY InitInv
<1>2. Inv /\ [Next]_vars => Inv'
  BY NextInv
<1>3. Inv => ListWhole /\ PoppedOnce /\ NothingLost
  BY WholeGivesListWhole, WholeGivesNothingLost DEF Inv, Whole, History
<1> QED BY <1>1, <1>2, <1>3, JobQueueUsesQueue, PTL

=============================================================================
