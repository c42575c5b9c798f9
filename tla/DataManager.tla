---------------------------- MODULE DataManager ----------------------------
(***************************************************************************)
(* CDataManagerBase and CDataManager (tier1/datamanager.cpp,               *)
(* public/tier1/datamanager.h): a cache of resources that threads reach    *)
(* through handles. m_memoryLists holds one element per resource on the    *)
(* LRU list, the lock list or the free list; a handle names an element and *)
(* the serial number it had.                                               *)
(*                                                                         *)
(* What the code does between Lock() and Unlock() is one step. What it     *)
(* reads or does outside is a step of its own: the two reads of the loop   *)
(* in EnsureCapacity, those of Purge, each DestroyResourceStorage, and the *)
(* change of size that NotifySizeChanged reports afterwards.               *)
(***************************************************************************)
EXTENDS Integers, Sequences, FiniteSets, Functions

CONSTANTS
  Thread,
  Item,          \* one per call of CreateResource; nobody resolves to NoItem
  NoItem,
  InitialSize,   \* [Item -> Nat], EstimatedSize and at first also Size()
  Sizes,         \* sizes an item may be changed to
  Targets,       \* values SetTargetSize is called with
  InitialTarget, \* maxSize of the constructor
  PurgeSizes,    \* arguments of Purge
  SerialMod,     \* serial is an unsigned short: 2^16. Bound: no element is freed so
                 \* often that its serial number comes round
  WordMod,       \* m_memUsed is an unsigned int: 2^32
  MaxLocks,      \* bound: locks a thread holds on one item
  MaxTouches     \* bound: changes of the target size and of item sizes

ASSUME ManagerAssumption ==
  /\ NoItem \notin Item
  /\ IsFiniteSet(Thread)
  /\ InitialSize \in [Item -> Nat] /\ InitialTarget \in Nat
  /\ Sizes \subseteq Nat /\ Targets \subseteq Nat /\ PurgeSizes \subseteq Nat
  /\ MaxTouches \in Nat
  /\ SerialMod \in Nat \ {0, 1}
  /\ WordMod \in Nat \ {0, 1}

VARIABLES
  lru, locked, free, \* m_lruList, m_lockList, m_freeList, from head to tail
  elem,              \* m_memoryLists, without the links
  memUsed,           \* m_memUsed
  target,            \* m_targetMemorySize
  size,              \* external: [Item -> Nat], what Size() returns
  alive,             \* external: items whose storage exists
  task,              \* [Thread -> what the thread is doing outside the lock]
  issued,            \* history: [Item -> the handle CreateResource returned]
  holds,             \* history: [Thread -> [Item -> Nat]], locks taken and not returned
  forced,            \* history: locks were broken, or locked items destroyed
  crossed,           \* history: two threads changed the size of one item at once
  touches            \* history: counts towards MaxTouches

listVars == <<lru, locked, free, elem>>
memVars == <<memUsed, target>>
historyVars == <<issued, holds, forced, crossed, touches>>
vars == <<listVars, memVars, size, alive, task, historyVars>>

-----------------------------------------------------------------------------
(* Elements and handles *)

NoHandle == [serial |-> 0, index |-> 0]
NoIndex == 0

\* resource_lru_element_t; reuses counts how often serial was incremented.
NewElement == [lockCount |-> 0, reuses |-> 0, store |-> NoItem]
Serial(e) == (1 + e.reuses) % SerialMod

\* ToHandle: the low word of a handle is the index plus one.
ToHandle(i) == [serial |-> Serial(elem[i]), index |-> i]

\* FromHandle: the element if it exists and has the serial of the handle.
FromHandle(h) ==
  IF h.index \in DOMAIN elem /\ Serial(elem[h.index]) = h.serial THEN h.index ELSE NoIndex

\* The element the handle of item x leads to, which need not hold x any more.
Found(x) == FromHandle(issued[x])
IsFound(x) == issued[x] # NoHandle /\ Found(x) # NoIndex

\* Mutant: the element stays.
UnlinkedNot(list, i) == list
Unlinked(list, i) ==
  LET k == CHOOSE k \in DOMAIN list : list[k] = i
  IN  SubSeq(list, 1, k - 1) \o SubSeq(list, k + 1, Len(list))

InList(list) == {list[k] : k \in DOMAIN list}
StoresOf(list) == [k \in DOMAIN list |-> elem[list[k]].store]
BytesOf(items) == SumFunctionOnSet(size, items)

\* Mutant: the lock count stays.
BrokenNot(elems, list) == elems

\* Locks that are broken: the elements with a lock count of zero.
Broken(elems, list) ==
  [i \in DOMAIN elems |->
     IF i \in InList(list) THEN [elems[i] EXCEPT !.lockCount = 0] ELSE elems[i]]

\* Mutant: the serial number stays.
FreedSameSerial(elems, list) ==
  [i \in DOMAIN elems |->
     IF i \in InList(list) THEN [elems[i] EXCEPT !.store = NoItem] ELSE elems[i]]

\* GetForFreeByIndex on each element of a list: handles die with the serial.
Freed(elems, list) ==
  [i \in DOMAIN elems |->
     IF i \in InList(list)
     THEN [elems[i] EXCEPT !.reuses = @ + 1, !.store = NoItem] ELSE elems[i]]

\* Bound: see SerialMod.
MayFree(list) == \A i \in InList(list) : elem[i].reuses + 1 < SerialMod

\* Mutant: the size at creation counts.
UsedWithoutEstimate(list) ==
  LET bytes == SumFunctionOnSet(InitialSize, InList(StoresOf(list)))
  IN  IF bytes > memUsed THEN 0 ELSE memUsed - bytes

\* Mutant: the reduction is not limited.
UsedWithoutLimit(list) == memUsed - BytesOf(InList(StoresOf(list)))

\* Used memory is never reduced below zero, with a warning that it is incorrect.
UsedWithout(list) ==
  LET bytes == BytesOf(InList(StoresOf(list)))
  IN  IF bytes > memUsed THEN 0 ELSE memUsed - bytes

-----------------------------------------------------------------------------
(* What a thread does outside the lock *)

Idle == [pc |-> "idle"]
\* DestroyResourceStorage is still to be called for items, then pc is next.
Destroying(items, next) == [pc |-> "destroy", items |-> items, next |-> next]
\* EnsureCapacity(bytes) at pc "used", "available" or "evict", then the rest.
Ensuring(pc, bytes, then) == [pc |-> pc, bytes |-> bytes, then |-> then]

IsIdle(t) == task[t] = Idle
Becomes(t, what) == task' = [task EXCEPT ![t] = what]

Init ==
  /\ lru = <<>> /\ locked = <<>> /\ free = <<>> /\ elem = <<>>
  /\ memUsed = 0 /\ target = InitialTarget
  /\ size = InitialSize
  /\ alive = {}
  /\ task = [t \in Thread |-> Idle]
  /\ issued = [x \in Item |-> NoHandle]
  /\ holds = [t \in Thread |-> [x \in Item |-> 0]]
  /\ forced = FALSE /\ crossed = FALSE
  /\ touches = 0

-----------------------------------------------------------------------------
(* EnsureCapacity *)

\* The loop condition reads m_memUsed once to see whether it is over target ...
TestUsed(t) ==
  /\ task[t].pc = "used"
  /\ Becomes(t, Ensuring(IF memUsed > target THEN "evict" ELSE "available",
                         task[t].bytes, task[t].then))
  /\ UNCHANGED <<listVars, memVars, size, alive, historyVars>>

\* ... and again to see whether enough is available.
TestAvailable(t) ==
  /\ task[t].pc = "available"
  /\ Becomes(t, IF (target - memUsed) % WordMod < task[t].bytes
                THEN Ensuring("evict", task[t].bytes, task[t].then) ELSE task[t].then)
  /\ UNCHANGED <<listVars, memVars, size, alive, historyVars>>

\* The head of the LRU list leaves, if there is one.
Evict(t) ==
  /\ task[t].pc = "evict"
  /\ IF lru = <<>>
     THEN Becomes(t, task[t].then) /\ UNCHANGED <<listVars, memVars>>
     ELSE LET victim == <<Head(lru)>>
          IN  /\ MayFree(victim)
              /\ lru' = Tail(lru)
              /\ free' = free \o victim
              /\ elem' = Freed(elem, victim)
              /\ memUsed' = UsedWithout(victim)
              /\ Becomes(t, Destroying(StoresOf(victim),
                                        Ensuring("used", task[t].bytes, task[t].then)))
              /\ UNCHANGED <<locked, target>>
  /\ UNCHANGED <<size, alive, historyVars>>

\* Mutant: only the first of several.
DestroyResourceStorageFirst(t) ==
  /\ task[t].pc = "destroy"
  /\ alive' = alive \ {Head(task[t].items)}
  /\ Becomes(t, task[t].next)
  /\ UNCHANGED <<listVars, memVars, size, historyVars>>

\* DestroyResourceStorage, outside the lock.
DestroyResourceStorage(t) ==
  /\ task[t].pc = "destroy"
  /\ alive' = alive \ {Head(task[t].items)}
  /\ Becomes(t, IF Len(task[t].items) = 1 THEN task[t].next
                ELSE Destroying(Tail(task[t].items), task[t].next))
  /\ UNCHANGED <<listVars, memVars, size, historyVars>>

-----------------------------------------------------------------------------
(* Creating a resource *)

\* What a thread has still to do after the capacity is ensured.
Rest(t) ==
  CASE task[t].pc \in {"used", "available", "evict"} -> task[t].then
    [] task[t].pc = "destroy" ->
         IF task[t].next.pc = "used" THEN task[t].next.then ELSE task[t].next
    [] OTHER -> task[t]

Unused(x) ==
  /\ issued[x] = NoHandle
  /\ \A t \in Thread : Rest(t).pc = "insert" => Rest(t).item # x

CreateResource(t, x, lock) ==
  /\ IsIdle(t) /\ Unused(x)
  /\ Becomes(t, Ensuring("used", InitialSize[x], [pc |-> "insert", item |-> x, lock |-> lock]))
  /\ UNCHANGED <<listVars, memVars, size, alive, historyVars>>

\* CreateHandle: the element at the head of the free list, or a new one.
NextIndex == IF free = <<>> THEN Len(elem) + 1 ELSE Head(free)
NextElement == IF free = <<>> THEN NewElement ELSE elem[NextIndex]

\* STORAGE_TYPE::CreateResource, CreateHandle and StoreResourceInHandle.
Insert(t) ==
  /\ task[t].pc = "insert"
  /\ LET x == task[t].item
         i == NextIndex
         e == [NextElement EXCEPT !.store = x,
                                  !.lockCount = IF task[t].lock THEN @ + 1 ELSE @]
     IN  /\ elem' = IF free = <<>> THEN Append(elem, e) ELSE [elem EXCEPT ![i] = e]
         /\ free' = IF free = <<>> THEN free ELSE Tail(free)
         /\ locked' = IF task[t].lock THEN Append(locked, i) ELSE locked
         /\ lru' = IF task[t].lock THEN lru ELSE Append(lru, i)
         /\ memUsed' = (memUsed + size[x]) % WordMod
         /\ alive' = alive \cup {x}
         /\ issued' = [issued EXCEPT ![x] = [serial |-> Serial(e), index |-> i]]
         /\ holds' = [holds EXCEPT ![t][x] = IF task[t].lock THEN 1 ELSE 0]
  /\ Becomes(t, Idle)
  /\ UNCHANGED <<target, size, forced, crossed, touches>>

-----------------------------------------------------------------------------
(* Locks *)

\* LockResource, LockResourceReturnCount.
LockResource(t, x) ==
  /\ IsIdle(t) /\ IsFound(x)
  /\ LET i == Found(x)
         y == elem[i].store
     IN  /\ holds[t][y] < MaxLocks
         /\ holds' = [holds EXCEPT ![t][y] = @ + 1]
         /\ elem' = [elem EXCEPT ![i].lockCount = @ + 1]
         /\ IF elem[i].lockCount = 0
            THEN lru' = Unlinked(lru, i) /\ locked' = Append(locked, i)
            ELSE UNCHANGED <<lru, locked>>
  /\ UNCHANGED <<free, memVars, size, alive, task, issued, forced, crossed, touches>>

\* UnlockResource by a thread that has a lock to return.
UnlockResource(t, x) ==
  /\ IsIdle(t) /\ holds[t][x] > 0
  /\ holds' = [holds EXCEPT ![t][x] = @ - 1]
  /\ LET i == Found(x)
     IN  IF i # NoIndex /\ elem[i].lockCount > 0
         THEN /\ elem' = [elem EXCEPT ![i].lockCount = @ - 1]
              /\ IF elem[i].lockCount = 1
                 THEN locked' = Unlinked(locked, i) /\ lru' = Append(lru, i)
                 ELSE UNCHANGED <<lru, locked>>
         ELSE UNCHANGED <<elem, lru, locked>>
  /\ UNCHANGED <<free, memVars, size, alive, task, issued, forced, crossed, touches>>

\* BreakLock: whoever holds the locks is not told.
BreakLock(t, x) ==
  /\ IsIdle(t) /\ IsFound(x) /\ elem[Found(x)].lockCount > 0
  /\ elem' = Broken(elem, <<Found(x)>>)
  /\ locked' = Unlinked(locked, Found(x))
  /\ lru' = Append(lru, Found(x))
  /\ forced' = TRUE
  /\ UNCHANGED <<free, memVars, size, alive, task, issued, holds, crossed, touches>>

BreakAllLocks(t) ==
  /\ IsIdle(t) /\ locked # <<>>
  /\ elem' = Broken(elem, locked)
  /\ lru' = lru \o locked
  /\ locked' = <<>>
  /\ forced' = TRUE
  /\ UNCHANGED <<free, memVars, size, alive, task, issued, holds, crossed, touches>>

\* TouchByIndex, for TouchResource and GetResource_NoLock.
TouchResource(t, x) ==
  /\ IsIdle(t) /\ IsFound(x) /\ elem[Found(x)].lockCount = 0
  /\ lru' = Append(Unlinked(lru, Found(x)), Found(x))
  /\ UNCHANGED <<locked, free, elem, memVars, size, alive, task, historyVars>>

MarkAsStale(t, x) ==
  /\ IsIdle(t) /\ IsFound(x) /\ elem[Found(x)].lockCount = 0
  /\ lru' = <<Found(x)>> \o Unlinked(lru, Found(x))
  /\ UNCHANGED <<locked, free, elem, memVars, size, alive, task, historyVars>>

-----------------------------------------------------------------------------
(* Destroying and flushing *)

\* DestroyResource: a locked resource trips an assertion and is destroyed.
DestroyResource(t, x) ==
  /\ IsIdle(t) /\ IsFound(x)
  /\ LET i == Found(x)
         isLocked == elem[i].lockCount > 0
     IN  /\ MayFree(<<i>>)
         /\ IF isLocked THEN locked' = Unlinked(locked, i) /\ lru' = lru
                        ELSE lru' = Unlinked(lru, i) /\ locked' = locked
         /\ elem' = Freed(Broken(elem, <<i>>), <<i>>)
         /\ free' = Append(free, i)
         /\ memUsed' = UsedWithout(<<i>>)
         /\ forced' = (forced \/ isLocked)
         /\ Becomes(t, Destroying(StoresOf(<<i>>), Idle))
  /\ UNCHANGED <<target, size, alive, issued, holds, crossed, touches>>

\* Mutant: locked resources are flushed as well.
FlushAllLockedToo(t) ==
  /\ IsIdle(t) /\ lru \o locked # <<>> /\ MayFree(lru \o locked)
  /\ lru' = <<>> /\ locked' = <<>>
  /\ free' = free \o lru \o locked
  /\ elem' = Freed(Broken(elem, locked), lru \o locked)
  /\ memUsed' = UsedWithout(lru \o locked)
  /\ Becomes(t, Destroying(StoresOf(lru \o locked), Idle))
  /\ UNCHANGED <<target, size, alive, historyVars>>

FlushAllUnlocked(t) ==
  /\ IsIdle(t) /\ lru # <<>> /\ MayFree(lru)
  /\ lru' = <<>>
  /\ free' = free \o lru
  /\ elem' = Freed(elem, lru)
  /\ memUsed' = UsedWithout(lru)
  /\ Becomes(t, Destroying(StoresOf(lru), Idle))
  /\ UNCHANGED <<locked, target, size, alive, historyVars>>

\* FlushAll: "the LRU AND the LOCKED items".
FlushAll(t) ==
  /\ IsIdle(t) /\ lru \o locked # <<>> /\ MayFree(lru \o locked)
  /\ lru' = <<>> /\ locked' = <<>>
  /\ free' = free \o lru \o locked
  /\ elem' = Freed(Broken(elem, locked), lru \o locked)
  /\ memUsed' = UsedWithout(lru \o locked)
  /\ forced' = (forced \/ locked # <<>>)
  /\ Becomes(t, Destroying(StoresOf(lru \o locked), Idle))
  /\ UNCHANGED <<target, size, alive, issued, holds, crossed, touches>>

FlushToTargetSize(t) ==
  /\ IsIdle(t)
  /\ Becomes(t, Ensuring("used", 0, Idle))
  /\ UNCHANGED <<listVars, memVars, size, alive, historyVars>>

\* Purge reads m_memUsed for the size it wants to reach, then again to see
\* whether it is asked for more than there is.
Purge(t, bytes) ==
  /\ IsIdle(t)
  /\ Becomes(t, [pc |-> "purge", bytes |-> bytes, goal |-> (memUsed - bytes) % WordMod])
  /\ UNCHANGED <<listVars, memVars, size, alive, historyVars>>

PurgeToGoal(t) ==
  /\ task[t].pc = "purge"
  /\ LET goal == IF task[t].bytes > memUsed THEN 0 ELSE task[t].goal
     IN  Becomes(t, Ensuring("used", (target - goal) % WordMod, Idle))
  /\ UNCHANGED <<listVars, memVars, size, alive, historyVars>>

-----------------------------------------------------------------------------
(* Sizes *)

SetTargetSize(t, n) ==
  /\ IsIdle(t) /\ n # target /\ touches < MaxTouches
  /\ target' = n
  /\ touches' = touches + 1
  /\ UNCHANGED <<listVars, memUsed, size, alive, task, issued, holds, forced, crossed>>

\* Thread t has changed the size of item x and not notified the manager yet.
Resizing(t, x) == Rest(t).pc = "notify" /\ Rest(t).item = x

\* CDataCacheSection::UpdateSize, the only caller of NotifySizeChanged: with a
\* lock on the item it sets the new size, then makes room, then notifies.
Resize(t, x, n) ==
  /\ IsIdle(t) /\ holds[t][x] > 0 /\ IsFound(x)
  /\ n # size[x] /\ touches < MaxTouches
  /\ size' = [size EXCEPT ![x] = n]
  /\ touches' = touches + 1
  /\ crossed' = (crossed \/ \E u \in Thread : Resizing(u, x))
  /\ LET notify == [pc |-> "notify", item |-> x, old |-> size[x], new |-> n]
     IN  Becomes(t, IF n > size[x] THEN Ensuring("used", n - size[x], notify) ELSE notify)
  /\ UNCHANGED <<listVars, memVars, alive, issued, holds, forced>>

NotifySizeChanged(t) ==
  /\ task[t].pc = "notify"
  /\ memUsed' = (memUsed + (task[t].new - task[t].old)) % WordMod
  /\ Becomes(t, Idle)
  /\ UNCHANGED <<listVars, target, size, alive, historyVars>>

Next ==
  \E t \in Thread :
    \/ TestUsed(t) \/ TestAvailable(t) \/ Evict(t) \/ DestroyResourceStorage(t)
    \/ Insert(t) \/ PurgeToGoal(t) \/ NotifySizeChanged(t)
    \/ \E x \in Item, lock \in BOOLEAN : CreateResource(t, x, lock)
    \/ \E x \in Item : \/ LockResource(t, x) \/ UnlockResource(t, x) \/ BreakLock(t, x)
                       \/ TouchResource(t, x) \/ MarkAsStale(t, x) \/ DestroyResource(t, x)
    \/ \E x \in Item, n \in Sizes : Resize(t, x, n)
    \/ BreakAllLocks(t) \/ FlushAllUnlocked(t) \/ FlushAll(t) \/ FlushToTargetSize(t)
    \/ \E n \in PurgeSizes : Purge(t, n)
    \/ \E n \in Targets : SetTargetSize(t, n)

Spec == Init /\ [][Next]_vars

-----------------------------------------------------------------------------
(* Correctness *)

Cached == {elem[i].store : i \in DOMAIN elem} \ {NoItem}
Index == DOMAIN elem
Handle == [serial : Nat, index : Nat]
Element == [lockCount : Nat, reuses : Nat, store : Item \cup {NoItem}]

\* What may remain to be done after EnsureCapacity, and what a thread may do.
Continuation ==
  [pc : {"idle"}] \cup [pc : {"insert"}, item : Item, lock : BOOLEAN]
  \cup [pc : {"notify"}, item : Item, old : Nat, new : Nat]
Loop == [pc : {"used", "available", "evict"}, bytes : Int, then : Continuation]
Task ==
  Continuation \cup Loop \cup [pc : {"purge"}, bytes : Int, goal : Int]
  \cup [pc : {"destroy"}, items : Seq(Item \cup {NoItem}), next : Continuation \cup Loop]

\* The lists, the elements and the handles keep their types.
ListTypeOK ==
  /\ lru \in Seq(Nat) /\ locked \in Seq(Nat) /\ free \in Seq(Nat)
  /\ elem \in Seq(Element)
  /\ issued \in [Item -> Handle]

\* Type invariant: the variables keep their types.
TypeOK ==
  /\ ListTypeOK
  /\ task \in [Thread -> Task]
  /\ memUsed \in 0 .. WordMod - 1 /\ target \in Nat
  /\ size \in [Item -> Nat]
  /\ alive \subseteq Item
  /\ holds \in [Thread -> [Item -> Nat]]
  /\ forced \in BOOLEAN /\ crossed \in BOOLEAN /\ touches \in 0 .. MaxTouches

Once(list) == \A k, l \in DOMAIN list : k # l => list[k] # list[l]

\* Every element is linked once, into the list its lock count and its resource
\* say, whatever the threads do in which order.
ListsAgree ==
  /\ Once(lru) /\ Once(locked) /\ Once(free)
  /\ InList(lru) = {i \in Index : elem[i].store # NoItem /\ elem[i].lockCount = 0}
  /\ InList(locked) = {i \in Index : elem[i].store # NoItem /\ elem[i].lockCount > 0}
  /\ InList(free) = {i \in Index : elem[i].store = NoItem /\ elem[i].lockCount = 0}
  /\ \A i \in Index : elem[i].store = NoItem => elem[i].lockCount = 0

\* A handle leads to the resource it was issued for or nowhere: never to another
\* resource that was given the same element, and never to a free element.
HandlesNeverAliased == \A x \in Item : IsFound(x) => elem[Found(x)].store = x

\* Storage exists for the resources in the lists and for those that a thread is
\* still to destroy: none is lost, and none is destroyed twice or while cached.
Pending(t) == IF task[t].pc = "destroy" THEN InList(task[t].items) ELSE {}

StorageOwned ==
  /\ alive = Cached \cup UNION {Pending(t) : t \in Thread}
  /\ \A t \in Thread : /\ Pending(t) \cap Cached = {}
                       /\ task[t].pc = "destroy" => Once(task[t].items)
                       /\ \A u \in Thread \ {t} : Pending(t) \cap Pending(u) = {}

\* The locks on resource x that threads have not returned.
Locks(x) == SumFunction([t \in Thread |-> holds[t][x]])

\* Until somebody breaks locks: a resource that a thread has locked stays, and
\* the lock count is the number of locks the threads have not returned.
LocksProtect ==
  ~forced =>
    \A x \in Item : /\ Locks(x) > 0 => IsFound(x) /\ x \in alive
                    /\ IsFound(x) => elem[Found(x)].lockCount = Locks(x)

\* The size of a resource that the manager has been told: Size() of it, but for
\* a change that is not notified yet.
Told ==
  [x \in Item |-> IF \E t \in Thread : Resizing(t, x)
                 THEN Rest(CHOOSE t \in Thread : Resizing(t, x)).old ELSE size[x]]

\* Until somebody breaks locks or two threads change the size of one resource at
\* once: m_memUsed is the sum of the sizes the manager has been told, for the
\* resources in the lists, and never has to be kept from falling below zero.
UsedIsTotal ==
  ~forced /\ ~crossed => memUsed = SumFunctionOnSet(Told, Cached)

\* The manager implements a pool of resources that are dropped and destroyed
\* once, and not while they are locked unless a caller forces it.
Pool == INSTANCE ResourcePool WITH
  cached <- Cached,
  locks <- [x \in Item |-> IF \E i \in Index : elem[i].store = x
                           THEN elem[CHOOSE i \in Index : elem[i].store = x].lockCount ELSE 0],
  dropped <- alive \ Cached,
  destroyed <- {x \in Item : issued[x] # NoHandle} \ alive

ImplementsPool == Pool!Spec

=============================================================================
