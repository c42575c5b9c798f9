--------------------------- MODULE JobQueueNodes ---------------------------
(***************************************************************************)
(* CJobQueue (vstdlib/jobthread.cpp) over a CTSQueue in all its steps: one *)
(* priority, the others empty. JobQueue has the same operations over       *)
(* atomic queues, and finds the item Pop expects; here a push that is over *)
(* may have put its item where no pop finds it yet.                        *)
(***************************************************************************)
EXTENDS TSQueue

VARIABLES
  nItems,  \* m_nItems
  call     \* where a thread is in Push or Pop of the CJobQueue

jvars == <<vars, nItems, call>>

JInit ==
  /\ Init
  /\ nItems = 0
  /\ call = [t \in Thread |-> "none"]

Push(t) ==
  /\ call[t] = "none"
  /\ PushItem(t)
  /\ call' = [call EXCEPT ![t] = "push"]
  /\ UNCHANGED nItems

CountItem(t) ==
  /\ call[t] = "push" /\ Idle(t)
  /\ nItems' = nItems + 1
  /\ call' = [call EXCEPT ![t] = "none"]
  /\ UNCHANGED vars

\* The item is taken off the count before it is looked for.
Reserve(t) ==
  /\ call[t] = "none"
  /\ nItems # 0
  /\ left[t] > 0
  /\ nItems' = nItems - 1
  /\ call' = [call EXCEPT ![t] = "reserved"]
  /\ UNCHANGED vars

Look(t) ==
  /\ call[t] = "reserved"
  /\ PopItem(t)
  /\ call' = [call EXCEPT ![t] = "pop"]
  /\ UNCHANGED nItems

Found(t) ==
  /\ call[t] = "pop" /\ Idle(t)
  /\ local[t].result = "item"
  /\ call' = [call EXCEPT ![t] = "none"]
  /\ UNCHANGED <<vars, nItems>>

\* What Pop does after its assertion.
PutBack(t) ==
  /\ call[t] = "pop" /\ Idle(t)
  /\ local[t].result = "empty"
  /\ nItems' = nItems + 1
  /\ call' = [call EXCEPT ![t] = "none"]
  /\ UNCHANGED vars

JNext ==
  \E t \in Thread :
    \/ Push(t) \/ CountItem(t) \/ Reserve(t) \/ Look(t) \/ Found(t) \/ PutBack(t)
    \/ Step(t) /\ UNCHANGED <<nItems, call>>

JSpec == JInit /\ [][JNext]_jvars

\* The assertion of Pop, "Expected at least one queue item": a thread that took an item
\* off the count does not find the queues empty.
ItemThere == \A t \in Thread : call[t] = "pop" /\ Idle(t) => local[t].result = "item"
=============================================================================
