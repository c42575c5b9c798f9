------------------------------ MODULE JobQueue ------------------------------
(***************************************************************************)
(* CJobQueue (vstdlib/jobthread.cpp): a CTSQueue of jobs per priority, and *)
(* a count of items under a mutex. Push adds the item before it counts it; *)
(* Pop takes one off the count before it looks for the item, queue after   *)
(* queue from the highest priority down, with no lock held, while other    *)
(* threads push and pop.                                                   *)
(*                                                                         *)
(* The CTSQueues are atomic here; TSQueue models their steps. Left out:    *)
(* the limit of INT_MAX items and the job serviced when it is reached, and *)
(* m_MinPriority, which nothing changes from JP_LOW.                       *)
(***************************************************************************)
EXTENDS Integers, Sequences, FiniteSets

CONSTANTS
  Thread,       \* the threads that push and pop
  Queue,        \* the CJobQueues
  Job,
  TopPriority   \* JP_NUM_PRIORITIES - 1

ASSUME ThreadAssumption == IsFiniteSet(Thread)
ASSUME PriorityAssumption == TopPriority \in Nat

Priority == 0 .. TopPriority

VARIABLES
  items,      \* m_queues
  nItems,     \* m_nItems
  available,  \* m_JobAvailableEvent
  access      \* where a thread is in Push or Pop

qvars == <<items, nItems, available, access>>

Outside == [at |-> "outside"]
Counting(q) == [at |-> "counting", queue |-> q]
Scanning(q, p) == [at |-> "scanning", queue |-> q, priority |-> p]
Whereabouts == {Outside} \cup {Counting(q) : q \in Queue}
                 \cup {Scanning(q, p) : q \in Queue, p \in -1 .. TopPriority}

QInit ==
  /\ items = [q \in Queue |-> [p \in Priority |-> <<>>]]
  /\ nItems = [q \in Queue |-> 0]
  /\ available = [q \in Queue |-> FALSE]
  /\ access = [t \in Thread |-> Outside]

-----------------------------------------------------------------------------
(* Push *)

PushItem(t, q, p, j) ==
  /\ access[t] = Outside
  /\ items' = [items EXCEPT ![q][p] = Append(@, j)]
  /\ access' = [access EXCEPT ![t] = Counting(q)]
  /\ UNCHANGED <<nItems, available>>

\* Mutant: the event is not set.
CountItemQuietly(t) ==
  /\ access[t].at = "counting"
  /\ nItems' = [nItems EXCEPT ![access[t].queue] = @ + 1]
  /\ access' = [access EXCEPT ![t] = Outside]
  /\ UNCHANGED <<items, available>>

\* The part of Push under the mutex.
CountItem(t) ==
  /\ access[t].at = "counting"
  /\ LET q == access[t].queue
     IN  /\ nItems' = [nItems EXCEPT ![q] = @ + 1]
         /\ available' = [available EXCEPT ![q] = @ \/ nItems[q] + 1 = 1]
  /\ access' = [access EXCEPT ![t] = Outside]
  /\ UNCHANGED items

-----------------------------------------------------------------------------
(* Pop *)

\* Mutant: the count stays until the item is found.
ReserveLater(t, q) ==
  /\ access[t] = Outside
  /\ nItems[q] # 0
  /\ access' = [access EXCEPT ![t] = Scanning(q, TopPriority)]
  /\ UNCHANGED <<items, nItems, available>>

\* The item is taken off the count under the mutex.
Reserve(t, q) ==
  /\ access[t] = Outside
  /\ nItems[q] # 0
  /\ nItems' = [nItems EXCEPT ![q] = @ - 1]
  /\ available' = [available EXCEPT ![q] = @ /\ nItems[q] - 1 # 0]
  /\ access' = [access EXCEPT ![t] = Scanning(q, TopPriority)]
  /\ UNCHANGED items

Level(t) == items[access[t].queue][access[t].priority]

\* The queue of this priority is empty, on to the next lower one.
Skip(t) ==
  /\ access[t].at = "scanning"
  /\ access[t].priority >= 0
  /\ Level(t) = <<>>
  /\ access' = [access EXCEPT ![t].priority = @ - 1]
  /\ UNCHANGED <<items, nItems, available>>

Take(t) ==
  /\ access[t].at = "scanning"
  /\ access[t].priority >= 0
  /\ Level(t) # <<>>
  /\ items' = [items EXCEPT ![access[t].queue][access[t].priority] = Tail(@)]
  /\ access' = [access EXCEPT ![t] = Outside]
  /\ UNCHANGED <<nItems, available>>

Inside(q) == {t \in Thread : access[t].at # "outside" /\ access[t].queue = q}

\* Flush, "only safe to call when system is suspended", of some queues, and what is left
\* of a queue that was deleted; what becomes of the jobs is the caller's.
Flush(queues) ==
  /\ \A q \in queues : Inside(q) = {}
  /\ items' = [q \in Queue |-> IF q \in queues THEN [p \in Priority |-> <<>>] ELSE items[q]]
  /\ nItems' = [q \in Queue |-> IF q \in queues THEN 0 ELSE nItems[q]]
  /\ available' = [q \in Queue |-> q \notin queues /\ available[q]]
  /\ UNCHANGED access

QStep(t) ==
  \/ \E q \in Queue, p \in Priority, j \in Job : PushItem(t, q, p, j)
  \/ CountItem(t)
  \/ \E q \in Queue : Reserve(t, q)
  \/ Skip(t)
  \/ Take(t)

QNext == (\E t \in Thread : QStep(t)) \/ (\E queues \in SUBSET Queue : Flush(queues))

QSpec == QInit /\ [][QNext]_qvars

-----------------------------------------------------------------------------
QTypeOK ==
  /\ items \in [Queue -> [Priority -> Seq(Job)]]
  /\ nItems \in [Queue -> Nat]
  /\ available \in [Queue -> BOOLEAN]
  /\ access \in [Thread -> Whereabouts]

\* A thread that took an item off the count finds one in some queue, although
\* nothing ties it to the item counted and the queues change while it looks from
\* one to the next: the assertion "Expected at least one queue item" of Pop.
\* What the code does when it fails is not modelled.
ExpectedItem ==
  \A t \in Thread : access[t].at = "scanning" => access[t].priority >= 0

-----------------------------------------------------------------------------
(* The invariant behind ExpectedItem: however far down the threads have      *)
(* looked, the queues they have still to look into hold an item for each.    *)

Scanners(q, p) ==
  {t \in Thread : access[t].at = "scanning" /\ access[t].queue = q /\ access[t].priority <= p}
Counters(q) == {t \in Thread : access[t] = Counting(q)}
Places(q, p) == UNION {{<<i, k>> : k \in 1 .. Len(items[q][i])} : i \in 0 .. p}

EnoughBelow ==
  \A q \in Queue : \A p \in -1 .. TopPriority :
    Cardinality(Scanners(q, p)) <= Cardinality(Places(q, p))

AllAccounted ==
  \A q \in Queue :
    Cardinality(Places(q, TopPriority)) =
      nItems[q] + Cardinality(Scanners(q, TopPriority)) + Cardinality(Counters(q))

QInv == QTypeOK /\ EnoughBelow /\ AllAccounted
=============================================================================
