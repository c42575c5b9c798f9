------------------------------ MODULE TSQueue ------------------------------
(***************************************************************************)
(* CTSQueue (public/tier0/tslist.h), the lock-free FIFO under the job      *)
(* queues, the call queues, the loopback and the Steam sockets: one step   *)
(* per access to memory that other threads write. Nodes are used again     *)
(* through a free list while a thread may still read them or swap a        *)
(* pointer in them; sequence numbers guard m_Head and m_Tail, not pNext.   *)
(*                                                                         *)
(* The free list, a CTSListBase, is atomic, but its link is the node's     *)
(* pNext. Memory is sequentially consistent. Left out: Purge, RemoveAll    *)
(* and ValidateQueue, "not threadsafe", and bTestOptimizer.                *)
(***************************************************************************)
EXTENDS Integers, FiniteSets

CONSTANTS
  Thread,
  Budgets,     \* bound: how many calls the threads make, a set of [Thread -> Nat]
  MaxCalls,    \* bound: calls of a thread
  MaxNodes,    \* bound: nodes there is memory for
  End, Null    \* End() and NULL

Node == 0 .. MaxNodes - 1

ASSUME TSQueueAssumption ==
  /\ IsFiniteSet(Thread)
  /\ MaxCalls \in Nat
  /\ Budgets \subseteq [Thread -> 0 .. MaxCalls]
  /\ MaxNodes \in Nat \ {0}
  /\ End \notin Node /\ Null \notin Node /\ End # Null

VARIABLES
  next, elem,  \* pNext and elem of the nodes
  head, tail,  \* m_Head, m_Tail: a node and a sequence number each
  count,       \* m_Count
  free,        \* m_FreeNodes: the node on top
  made,        \* the number of nodes `new' made
  local,       \* per thread: where it is, and its local variables
  left,        \* the calls a thread may still begin
  pushed,      \* history: the items pushed, from the beginning of the call
  taken        \* history: how often each was popped

vars == <<next, elem, head, tail, count, free, made, local, left, pushed, taken>>

\* An item is told from all others by who pushed it, and when.
Item == Thread \X (1 .. MaxCalls)

Link(n, s) == [node |-> n, sequence |-> s]

\* mine: the node pushed; node and sequence: oldTail, or head.
Returned(result) ==
  [at |-> "idle", mine |-> Null, node |-> Null, sequence |-> 0, tailSequence |-> 0,
   next |-> Null, elem |-> Null, result |-> result]

At(t, where) == local[t].at = where
Idle(t) == At(t, "idle")
Goto(t, where) == local' = [local EXCEPT ![t].at = where]
Return(t, result) == local' = [local EXCEPT ![t] = Returned(result)]
Begin(t, where) ==
  /\ Idle(t)
  /\ left[t] > 0
  /\ left' = [left EXCEPT ![t] = @ - 1]

Init ==
  /\ next = [n \in Node |-> IF n = 0 THEN End ELSE Null]
  /\ elem = [n \in Node |-> Null]
  /\ head = Link(0, 0) /\ tail = Link(0, 0)
  /\ count = 0
  /\ free = Null
  /\ made = 1
  /\ local = [t \in Thread |-> Returned(Null)]
  /\ left \in Budgets
  /\ pushed = {}
  /\ taken = [i \in Item |-> 0]

-----------------------------------------------------------------------------
(* FinishPush(pNode, oldTail) *)

FinishPush(n, oldTail) ==
  tail' = IF tail = oldTail THEN Link(n, tail.sequence + 1) ELSE tail

OldTail(t) == Link(local[t].node, local[t].sequence)

-----------------------------------------------------------------------------
(* PushItem and Push *)

\* A node off the free list, or a new one.
PushItem(t) ==
  /\ Begin(t, "mark")
  /\ LET n == IF free # Null THEN free ELSE made
         i == <<t, left[t]>>
     IN  /\ n \in Node
         /\ free' = IF free # Null THEN next[free] ELSE free
         /\ made' = IF free # Null THEN made ELSE made + 1
         /\ elem' = [elem EXCEPT ![n] = i]
         /\ pushed' = pushed \cup {i}
         /\ local' = [local EXCEPT ![t] = [Returned(Null) EXCEPT !.at = "mark", !.mine = n]]
  /\ UNCHANGED <<next, head, tail, count, taken>>

\* Mutant: the node keeps the link it had.
MarkNothing(t) ==
  /\ At(t, "mark")
  /\ Goto(t, "tail sequence")
  /\ UNCHANGED <<next, elem, head, tail, count, free, made, left, pushed, taken>>

Mark(t) ==
  /\ At(t, "mark")
  /\ next' = [next EXCEPT ![local[t].mine] = End]
  /\ Goto(t, "tail sequence")
  /\ UNCHANGED <<elem, head, tail, count, free, made, left, pushed, taken>>

ReadTailSequence(t) ==
  /\ At(t, "tail sequence")
  /\ local' = [local EXCEPT ![t].at = "tail node", ![t].sequence = tail.sequence]
  /\ UNCHANGED <<next, elem, head, tail, count, free, made, left, pushed, taken>>

ReadTailNode(t) ==
  /\ At(t, "tail node")
  /\ local' = [local EXCEPT ![t].at = "append", ![t].node = tail.node]
  /\ UNCHANGED <<next, elem, head, tail, count, free, made, left, pushed, taken>>

\* Mutant: the node is written behind the last one whatever is there.
AppendAnyway(t) ==
  /\ At(t, "append")
  /\ next' = [next EXCEPT ![local[t].node] = local[t].mine]
  /\ Goto(t, "finish")
  /\ UNCHANGED <<elem, head, tail, count, free, made, left, pushed, taken>>

\* The last node's pNext from End() to the new node, if it still is End(). The node
\* may by then be another thread's, off the free list and not yet in the queue.
Append(t) ==
  /\ At(t, "append")
  /\ \/ /\ next[local[t].node] = End
        /\ next' = [next EXCEPT ![local[t].node] = local[t].mine]
        /\ Goto(t, "finish")
     \/ /\ next[local[t].node] # End
        /\ Goto(t, "help")
        /\ UNCHANGED next
  /\ UNCHANGED <<elem, head, tail, count, free, made, left, pushed, taken>>

\* "Another thread is trying to push, help it along": pNext is read, then m_Tail swapped.
Help(t) ==
  /\ At(t, "help")
  /\ local' = [local EXCEPT ![t].at = "help finish", ![t].next = next[local[t].node]]
  /\ UNCHANGED <<next, elem, head, tail, count, free, made, left, pushed, taken>>

\* Mutant: the other thread is left to finish its push itself.
LeaveAlone(t) ==
  /\ At(t, "help finish")
  /\ local' = [local EXCEPT ![t].at = "tail sequence", ![t].next = Null]
  /\ UNCHANGED <<next, elem, head, tail, count, free, made, left, pushed, taken>>

HelpFinish(t) ==
  /\ At(t, "help finish")
  /\ FinishPush(local[t].next, OldTail(t))
  /\ local' = [local EXCEPT ![t].at = "tail sequence", ![t].next = Null]
  /\ UNCHANGED <<next, elem, head, count, free, made, left, pushed, taken>>

\* "This can fail if another thread pushed between the sequence and node grabs above.
\* Later pushes or pops corrects".
Finish(t) ==
  /\ At(t, "finish")
  /\ FinishPush(local[t].mine, OldTail(t))
  /\ Goto(t, "count")
  /\ UNCHANGED <<next, elem, head, count, free, made, left, pushed, taken>>

CountPush(t) ==
  /\ At(t, "count")
  /\ count' = count + 1
  /\ Return(t, Null)
  /\ UNCHANGED <<next, elem, head, tail, free, made, left, pushed, taken>>

-----------------------------------------------------------------------------
(* PopItem and Pop *)

\* The loop's first read, of m_Head's sequence.
Loop(t) ==
  local' = [local EXCEPT ![t] = [Returned(Null) EXCEPT !.at = "head node",
                                                       !.sequence = head.sequence]]

PopItem(t) ==
  /\ Begin(t, "head node")
  /\ Loop(t)
  /\ UNCHANGED <<next, elem, head, tail, count, free, made, pushed, taken>>

Again(t) ==
  /\ At(t, "again")
  /\ Loop(t)
  /\ UNCHANGED <<next, elem, head, tail, count, free, made, left, pushed, taken>>

ReadHeadNode(t) ==
  /\ At(t, "head node")
  /\ local' = [local EXCEPT ![t].at = "pop tail sequence", ![t].node = head.node]
  /\ UNCHANGED <<next, elem, head, tail, count, free, made, left, pushed, taken>>

ReadPopTailSequence(t) ==
  /\ At(t, "pop tail sequence")
  /\ local' = [local EXCEPT ![t].at = "next", ![t].tailSequence = tail.sequence]
  /\ UNCHANGED <<next, elem, head, tail, count, free, made, left, pushed, taken>>

ReadNext(t) ==
  /\ At(t, "next")
  /\ local' = [local EXCEPT ![t].at = "recheck", ![t].next = next[local[t].node]]
  /\ UNCHANGED <<next, elem, head, tail, count, free, made, left, pushed, taken>>

Recheck(t) ==
  /\ At(t, "recheck")
  /\ Goto(t, IF local[t].next = Null \/ head.sequence # local[t].sequence
             THEN "again" ELSE "compare")
  /\ UNCHANGED <<next, elem, head, tail, count, free, made, left, pushed, taken>>

Compare(t) ==
  /\ At(t, "compare")
  /\ \/ /\ tail.node = local[t].node
        /\ local[t].next = End
        /\ Return(t, "empty")
     \/ /\ tail.node = local[t].node
        /\ local[t].next # End
        /\ Goto(t, "pop help")
     \/ /\ tail.node # local[t].node
        /\ Goto(t, IF local[t].next = End THEN "again" ELSE "element")
  /\ UNCHANGED <<next, elem, head, tail, count, free, made, left, pushed, taken>>

PopHelp(t) ==
  /\ At(t, "pop help")
  /\ FinishPush(local[t].next, Link(local[t].node, local[t].tailSequence))
  /\ Goto(t, "again")
  /\ UNCHANGED <<next, elem, head, count, free, made, left, pushed, taken>>

\* "NOTE: next could be a freed node here, by design".
ReadElement(t) ==
  /\ At(t, "element")
  /\ local' = [local EXCEPT ![t].at = "advance", ![t].elem = elem[local[t].next]]
  /\ UNCHANGED <<next, elem, head, tail, count, free, made, left, pushed, taken>>

\* Mutant: m_Head is compared by its node only.
AdvanceUnnumbered(t) ==
  /\ At(t, "advance")
  /\ \/ /\ head.node = local[t].node
        /\ head' = Link(local[t].next, local[t].sequence + 1)
        /\ Goto(t, "uncount")
     \/ /\ head.node # local[t].node
        /\ Goto(t, "again")
        /\ UNCHANGED head
  /\ UNCHANGED <<next, elem, tail, count, free, made, left, pushed, taken>>

Advance(t) ==
  /\ At(t, "advance")
  /\ \/ /\ head = Link(local[t].node, local[t].sequence)
        /\ head' = Link(local[t].next, local[t].sequence + 1)
        /\ Goto(t, "uncount")
     \/ /\ head # Link(local[t].node, local[t].sequence)
        /\ Goto(t, "again")
        /\ UNCHANGED head
  /\ UNCHANGED <<next, elem, tail, count, free, made, left, pushed, taken>>

Uncount(t) ==
  /\ At(t, "uncount")
  /\ count' = count - 1
  /\ Goto(t, "free")
  /\ UNCHANGED <<next, elem, head, tail, free, made, left, pushed, taken>>

\* The item goes through the node, which goes on the free list.
FreeNode(t) ==
  /\ At(t, "free")
  /\ elem' = [elem EXCEPT ![local[t].node] = local[t].elem]
  /\ next' = [next EXCEPT ![local[t].node] = free]
  /\ free' = local[t].node
  /\ taken' = [taken EXCEPT ![local[t].elem] = @ + 1]
  /\ Return(t, "item")
  /\ UNCHANGED <<head, tail, count, made, left, pushed>>

-----------------------------------------------------------------------------
PushStep(t) ==
  \/ Mark(t) \/ ReadTailSequence(t) \/ ReadTailNode(t) \/ Append(t)
  \/ Help(t) \/ HelpFinish(t) \/ Finish(t) \/ CountPush(t)

PopStep(t) ==
  \/ Again(t) \/ ReadHeadNode(t) \/ ReadPopTailSequence(t) \/ ReadNext(t) \/ Recheck(t)
  \/ Compare(t) \/ PopHelp(t) \/ ReadElement(t) \/ Advance(t) \/ Uncount(t) \/ FreeNode(t)

Step(t) == PushStep(t) \/ PopStep(t)

Next == \E t \in Thread : PushItem(t) \/ PopItem(t) \/ Step(t)

\* A thread in a call runs on.
Fairness == \A t \in Thread : WF_vars(Step(t))

Spec == Init /\ [][Next]_vars /\ Fairness

-----------------------------------------------------------------------------
\* The nodes from n on, by pNext; every node there is when they never end.
Chain(n) ==
  LET reach[k \in 0 .. MaxNodes] ==
        IF k = 0 THEN {n} \ {End, Null}
        ELSE reach[k - 1] \cup ({next[m] : m \in reach[k - 1]} \ {End, Null})
  IN  reach[MaxNodes]

Quiet == \A t \in Thread : Idle(t)

TypeOK ==
  /\ next \in [Node -> Node \cup {End, Null}]
  /\ elem \in [Node -> Item \cup {Null}]
  /\ head.node \in Node /\ tail.node \in Node
  /\ \A t \in Thread :
       /\ local[t].node \in Node \cup {Null} /\ local[t].mine \in Node \cup {Null}
       /\ At(t, "advance") => local[t].elem \in Item \cup {Null}

\* The list from m_Head on ends in End(), reaches m_Tail, and has no node that is
\* free or still to be appended: what is read of m_Head or m_Tail is in the queue.
ListWhole ==
  LET list == Chain(head.node)
  IN  /\ tail.node \in list
      /\ \E n \in list : next[n] = End
      /\ list \cap Chain(free) = {}
      /\ \A t \in Thread :
           /\ local[t].at \in {"mark", "tail sequence", "tail node", "append", "help",
                               "help finish"} => local[t].mine \notin list
           /\ local[t].at \in {"uncount", "free"} => local[t].node \notin list

\* No item is popped twice, or popped that was never pushed.
PoppedOnce == \A i \in Item : taken[i] <= (IF i \in pushed THEN 1 ELSE 0)

\* When no call is under way the queue has every item pushed and not popped, once,
\* and counts them: one linked behind a node of another thread's came with it.
NothingLost ==
  Quiet =>
    LET list == Chain(head.node) \ {head.node}
    IN  /\ {elem[n] : n \in list} = {i \in pushed : taken[i] = 0}
        /\ Cardinality(list) = count
        /\ count = Cardinality({i \in pushed : taken[i] = 0})

\* All calls return, there being no more than Budgets allows: a thread that finds m_Tail
\* behind moves it on itself, whether the one that left it there goes on or has long
\* returned, as it may when its FinishPush failed.
CallsReturn == []<>Quiet
=============================================================================
