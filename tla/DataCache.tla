----------------------------- MODULE DataCache -----------------------------
(***************************************************************************)
(* A section of the shared data cache (CDataCacheSection and CDataCache,   *)
(* datacache/datacache.cpp, datacache.h) on top of the manager of module   *)
(* DataManager, whose operations are single steps here: the section's      *)
(* mutex is the manager's. Every call runs as a list of steps, todo[t]:    *)
(* between two of them other threads run. The section notes each change in *)
(* two status records, its own with plain reads and writes and the shared  *)
(* one with interlocked instructions. Only its bytes and items are kept:   *)
(* no call reads the counters of locks that NoteLock and NoteUnlock change.*)
(* The kind of a notification is left out.                                 *)
(***************************************************************************)
EXTENDS Integers, Sequences, FiniteSets, FiniteSetsExt, SequencesExt, Functions

CONSTANTS
  Thread,
  Item,          \* one per call of AddEx, by one client with one section
  InitialSize,   \* [Item -> Nat \ {0}], size of AddEx
  NewSizes,      \* sizes of UpdateSize
  Target,        \* size of the shared cache
  MaxBytes, MaxItems, \* m_limits of the section
  Slots,         \* DC_MAX_THREADS_FRAMELOCKED
  WordMod,       \* the counters are unsigned ints: 2^32
  MaxLocks, MaxDepth \* bounds: locks of a thread on an item, nested frames

ASSUME CacheAssumption ==
  /\ IsFiniteSet(Thread) /\ IsFiniteSet(Item)
  /\ InitialSize \in [Item -> Nat \ {0}] /\ NewSizes \subseteq Nat \ {0}
  /\ MaxBytes \in Nat /\ MaxItems \in Nat /\ MaxDepth \in Nat
  /\ Slots \in Nat \ {0}
  /\ WordMod \in Nat \ {0, 1}

VARIABLES
  lru, count, \* the manager: unlocked items, oldest first, and the lock counts
  used,       \* m_memUsed
  size,       \* [Item -> Nat], pItem->size
  own,        \* m_status of the section, the fields EnsureCapacity reads
  all,        \* m_status of the shared cache
  frame,      \* m_FrameLocks and the items linked by pNextFrameLocked
  inFlush,    \* m_bInFlush
  todo,       \* [Thread -> steps left of the call the thread is in]
  discards,   \* history: [Item -> Nat], how often DiscardItemData ran for it
  holds,      \* history: [Thread -> [Item -> Nat]], client locks not returned
  forced,     \* history: locks were broken or a locked item was discarded
  crashed,    \* a freed or missing item was used
  crossed     \* history: a size was set after it changed since it was read

lruVars == <<lru, count, used>>
statusVars == <<own, all>>
historyVars == <<discards, holds, forced, crashed, crossed>>
vars == <<lruVars, size, statusVars, frame, inFlush, todo, historyVars>>

-----------------------------------------------------------------------------
(* The cache *)

Locked == {x \in Item : count[x] > 0}
Cached == ToSet(lru) \cup Locked
Added == {x \in Item : size[x] > 0}
Without(list, items) ==
  LET kept[k \in 0 .. Len(list)] ==
        IF k = 0 THEN <<>>
        ELSE IF list[k] \in items THEN kept[k - 1] ELSE Append(kept[k - 1], list[k])
  IN  kept[Len(list)]
BytesOf(items) == SumFunctionOnSet(size, items)
UsedWithout(items) == IF BytesOf(items) > used THEN 0 ELSE used - BytesOf(items)

NoFrame == [depth |-> 0, list |-> <<>>]
FramesInUse == {t \in Thread : frame[t] # NoFrame}

-----------------------------------------------------------------------------
(* Steps of a call *)

OnItem(op, x) == [op |-> op, item |-> x]
Sized(op, x, n) == [op |-> op, item |-> x, n |-> n]
SetTo(x, n, old) == [op |-> "setSize", item |-> x, n |-> n, old |-> old]
Room(op, n) == [op |-> op, n |-> n]
Flushing(op) == [op |-> op]
Note(bytes, items) == [op |-> "note", bytes |-> bytes, items |-> items]

NoteAdd(n) == Note(n, 1)
NoteRemove(x) == Note(-size[x], -1)
NoteSizeChanged(n) == Note(n, 0)

\* CDataCacheSection::EnsureCapacity.
EnsureCapacity(n) ==
  <<Room("limitBytes", n), Room("limitItems", n), Room("ensure", n)>>

IsIdle(t) == todo[t] = <<>> /\ ~crashed
\* Bound: once locks were broken, calls only return locks and frames.
Starts(t) == IsIdle(t) /\ ~forced
At(t, op) == todo[t] # <<>> /\ Head(todo[t]).op = op /\ ~crashed
Current(t) == Head(todo[t])
Calls(t, steps) == todo' = [todo EXCEPT ![t] = steps]
\* The step is done, steps come before the rest.
Continues(t, steps) == Calls(t, steps \o Tail(todo[t]))

StatusZero == [bytes |-> 0, items |-> 0]

Init ==
  /\ lru = <<>> /\ count = [x \in Item |-> 0] /\ used = 0
  /\ size = [x \in Item |-> 0]
  /\ own = StatusZero /\ all = StatusZero
  /\ frame = [t \in Thread |-> NoFrame]
  /\ inFlush = FALSE
  /\ todo = [t \in Thread |-> <<>>]
  /\ discards = [x \in Item |-> 0]
  /\ holds = [t \in Thread |-> [x \in Item |-> 0]]
  /\ forced = FALSE /\ crashed = FALSE /\ crossed = FALSE

-----------------------------------------------------------------------------
(* Status *)

\* Mutant: the counters do not wrap.
PlusUnbounded(status, d) == [f \in DOMAIN status |-> status[f] + d[f]]
Plus(status, d) == [f \in DOMAIN status |-> (status[f] + d[f]) % WordMod]

\* The fields of m_status are read ...
LoadStatus(t) ==
  /\ At(t, "note")
  /\ Continues(t, <<[op |-> "store", delta |-> Current(t), seen |-> own]>>)
  /\ UNCHANGED <<lruVars, size, statusVars, frame, inFlush, historyVars>>

\* ... and written, whatever was written in between; the shared ones are added to.
StoreStatus(t) ==
  /\ At(t, "store")
  /\ own' = Plus(Current(t).seen, Current(t).delta)
  /\ all' = Plus(all, Current(t).delta)
  /\ Continues(t, <<>>)
  /\ UNCHANGED <<lruVars, size, frame, inFlush, historyVars>>

-----------------------------------------------------------------------------
(* Discarding *)

\* Mutant: pSection is kept, so that destroying the resource calls back.
DiscardedTwice(items) == [x \in Item |-> IF x \in items THEN discards[x] + 2 ELSE discards[x]]
\* DiscardItemData tells the client, or OnRemove, and clears pSection.
Discarded(items) == [x \in Item |-> IF x \in items THEN discards[x] + 1 ELSE discards[x]]

\* Mutant: locked items are not counted out.
DiscardNotesUnlocked(list) ==
  LET unlocked == Without(list, Locked)
  IN  [i \in DOMAIN unlocked |-> NoteRemove(unlocked[i])]

\* m_status is read without the mutex: the notes of a discard may follow it.
DiscardNotes(list) == [i \in DOMAIN list |-> NoteRemove(list[i])]

\* DiscardItem on each of a list of items, under the mutex; rest is still to do.
\* Only the calling thread's frame is relieved of the items.
DiscardItems(t, list, rest) ==
  LET items == ToSet(list)
  IN  /\ lru' = Without(lru, items)
      /\ count' = [x \in Item |-> IF x \in items THEN 0 ELSE count[x]]
      /\ used' = UsedWithout(items)
      /\ discards' = Discarded(items)
      /\ frame' = [frame EXCEPT ![t].list = Without(@, items)]
      /\ forced' = (forced \/ items \cap Locked # {})
      /\ Calls(t, DiscardNotes(list) \o rest)
      /\ UNCHANGED <<size, statusVars, inFlush, holds, crashed, crossed>>

\* DataCacheItem_t::DestroyResource, called back without the mutex.
DestroyResource(t) ==
  /\ At(t, "destroy")
  /\ discards' = Discarded({Current(t).item})
  /\ Continues(t, <<NoteRemove(Current(t).item)>>)
  /\ UNCHANGED <<lruVars, size, statusVars, frame, inFlush, holds, forced, crashed, crossed>>

Destroys(list) == [i \in DOMAIN list |-> OnItem("destroy", list[i])]

-----------------------------------------------------------------------------
(* Making room *)

LimitBytes(t) ==
  /\ At(t, "limitBytes")
  /\ LET bytes == (own.bytes + Current(t).n) % WordMod
     IN  Continues(t, IF bytes > MaxBytes
                      THEN <<Room("purge", bytes - MaxBytes)>> ELSE <<>>)
  /\ UNCHANGED <<lruVars, size, statusVars, frame, inFlush, historyVars>>

LimitItems(t) ==
  /\ At(t, "limitItems")
  /\ Continues(t, IF own.items >= MaxItems
                  THEN <<Room("purgeItems", own.items - MaxItems + 1)>> ELSE <<>>)
  /\ UNCHANGED <<lruVars, size, statusVars, frame, inFlush, historyVars>>

\* Purge: the oldest items, until that many bytes are free.
Purge(t) ==
  /\ At(t, "purge")
  /\ LET enough == {k \in 0 .. Len(lru) : BytesOf(ToSet(SubSeq(lru, 1, k))) >= Current(t).n}
         k == IF enough = {} THEN Len(lru) ELSE Min(enough)
     IN  DiscardItems(t, SubSeq(lru, 1, k), Tail(todo[t]))

PurgeItems(t) ==
  /\ At(t, "purgeItems")
  /\ DiscardItems(t, SubSeq(lru, 1, Min({Len(lru), Current(t).n})), Tail(todo[t]))

\* CDataManagerBase::EnsureCapacity, one round of its loop.
Ensure(t) ==
  /\ At(t, "ensure")
  /\ IF lru # <<>> /\ (used > Target \/ Target - used < Current(t).n)
     THEN /\ lru' = Tail(lru)
          /\ used' = UsedWithout({Head(lru)})
          /\ Calls(t, Destroys(<<Head(lru)>>) \o todo[t])
     ELSE /\ Continues(t, <<>>)
          /\ UNCHANGED <<lru, used>>
  /\ UNCHANGED <<count, size, statusVars, frame, inFlush, historyVars>>

-----------------------------------------------------------------------------
(* Adding *)

\* The manager's CreateResource makes room again; FrameLock comes before the
\* lock that AddEx has on the item is returned.
AddEx(t, x, flag) ==
  /\ Starts(t) /\ x \notin Added
  /\ \A u \in Thread : \A i \in DOMAIN todo[u] :
       todo[u][i].op = "insert" => todo[u][i].item # x
  /\ LET n == InitialSize[x]
     IN  Calls(t, EnsureCapacity(n) \o
                  <<Sized("insert", x, n)>> \o
                  (IF flag THEN <<OnItem("lock", x)>> ELSE <<>>) \o
                  (IF frame[t] # NoFrame THEN <<OnItem("pin", x)>> ELSE <<>>) \o
                  <<OnItem("unpin", x)>>)
  /\ UNCHANGED <<lruVars, size, statusVars, frame, inFlush, historyVars>>

\* CreateResource with a lock: not one that NoteLock is told of, except on PS3.
Insert(t) ==
  /\ At(t, "insert")
  /\ LET x == Current(t).item
     IN  /\ size' = [size EXCEPT ![x] = Current(t).n]
         /\ count' = [count EXCEPT ![x] = 1]
         /\ used' = (used + Current(t).n) % WordMod
         /\ Continues(t, <<NoteAdd(Current(t).n)>>)
  /\ UNCHANGED <<lru, statusVars, frame, inFlush, historyVars>>

-----------------------------------------------------------------------------
(* Locks *)

Relocked(x, n) ==
  /\ count' = [count EXCEPT ![x] = n]
  /\ lru' = Without(lru, {x}) \o IF n = 0 THEN <<x>> ELSE <<>>

\* Lock, and GetAndLockMultiple on several handles under the mutex.
LockItems(t, items) ==
  /\ Starts(t) /\ items # {}
  /\ \A x \in items : holds[t][x] < MaxLocks
  /\ count' = [x \in Item |-> IF x \in items THEN count[x] + 1 ELSE count[x]]
  /\ lru' = Without(lru, items)
  /\ holds' = [holds EXCEPT ![t] = [x \in Item |-> IF x \in items THEN @[x] + 1 ELSE @[x]]]
  /\ UNCHANGED <<used, size, statusVars, frame, inFlush, todo, discards, forced, crashed, crossed>>

\* The lock that AddEx takes for DCAF_LOCK.
LockAdded(t) ==
  /\ At(t, "lock")
  /\ LET x == Current(t).item
     IN  IF x \in Cached
         THEN /\ Relocked(x, count[x] + 1)
              /\ holds' = [holds EXCEPT ![t][x] = @ + 1]
         ELSE UNCHANGED <<lru, count, holds>>
  /\ Continues(t, <<>>)
  /\ UNCHANGED <<used, size, statusVars, frame, inFlush, discards, forced, crashed, crossed>>

\* Unlock makes room when it returns the last lock.
AfterUnlock(x) == IF count[x] <= 1 THEN EnsureCapacity(0) ELSE <<>>

\* Unlock of a client lock. An item that was flushed meanwhile is not there to
\* read the size of.
Unlock(t, x) ==
  /\ IsIdle(t) /\ holds[t][x] > 0
  /\ holds' = [holds EXCEPT ![t][x] = @ - 1]
  /\ IF x \in Cached
     THEN /\ IF count[x] > 0 THEN Relocked(x, count[x] - 1) ELSE UNCHANGED <<lru, count>>
          /\ Calls(t, AfterUnlock(x))
          /\ crashed' = crashed
     ELSE crashed' = TRUE /\ UNCHANGED <<lru, count, todo>>
  /\ UNCHANGED <<used, size, statusVars, frame, inFlush, discards, forced, crossed>>

\* BreakLock of the manager: the status is not told.
BreakLock(t, x) ==
  /\ Starts(t) /\ x \in Locked
  /\ Relocked(x, 0)
  /\ forced' = TRUE
  /\ UNCHANGED <<used, size, statusVars, frame, inFlush, todo, discards, holds, crashed, crossed>>

\* Touch and Get move an unlocked item to the end, Age to the head.
Reorder(t, x) ==
  /\ Starts(t) /\ x \in ToSet(lru)
  /\ lru' \in {Append(Without(lru, {x}), x), <<x>> \o Without(lru, {x})}
  /\ UNCHANGED <<count, used, size, statusVars, frame, inFlush, todo, historyVars>>

-----------------------------------------------------------------------------
(* Frame locks *)

\* A thread without a frame waits until there is a free one.
BeginFrameLocking(t) ==
  /\ Starts(t) /\ frame[t].depth < MaxDepth
  /\ frame[t] = NoFrame => Cardinality(FramesInUse) < Slots
  /\ frame' = [frame EXCEPT ![t].depth = @ + 1]
  /\ UNCHANGED <<lruVars, size, statusVars, inFlush, todo, historyVars>>

FrameLock(t, x) ==
  /\ Starts(t) /\ frame[t] # NoFrame /\ x \in Cached
  /\ Calls(t, <<OnItem("pin", x)>>)
  /\ UNCHANGED <<lruVars, size, statusVars, frame, inFlush, historyVars>>

\* FrameLock locks the item with the manager ...
Pin(t) ==
  /\ At(t, "pin")
  /\ LET x == Current(t).item
     IN  IF frame[t] # NoFrame /\ x \in Cached
         THEN Relocked(x, count[x] + 1) /\ Continues(t, <<OnItem("link", x), OnItem("unpin", x)>>)
         ELSE Continues(t, <<>>) /\ UNCHANGED <<lru, count>>
  /\ UNCHANGED <<used, size, statusVars, frame, inFlush, historyVars>>

\* Mutant: the item is linked and not locked.
LinkedUnlocked(t, x) ==
  /\ frame' = [frame EXCEPT ![t].list = <<x>> \o @]
  /\ UNCHANGED <<lru, count>>

\* ... links it into the thread's frame and locks it for that ...
Linked(t, x) ==
  /\ frame' = [frame EXCEPT ![t].list = <<x>> \o @]
  /\ Relocked(x, count[x] + 1)

Link(t) ==
  /\ At(t, "link")
  /\ LET x == Current(t).item
     IN  /\ crashed' = (x \notin Cached)
         /\ IF x \in Cached /\ x \notin ToSet(frame[t].list) THEN Linked(t, x)
            ELSE UNCHANGED <<lru, count, frame>>
  /\ Continues(t, <<>>)
  /\ UNCHANGED <<used, size, statusVars, inFlush, discards, holds, forced, crossed>>

\* ... and returns the manager's lock, which UnlockResource does for AddEx too.
Unpin(t) ==
  /\ At(t, "unpin")
  /\ LET x == Current(t).item
     IN  IF count[x] > 0 THEN Relocked(x, count[x] - 1) ELSE UNCHANGED <<lru, count>>
  /\ Continues(t, <<>>)
  /\ UNCHANGED <<used, size, statusVars, frame, inFlush, historyVars>>

\* The outermost EndFrameLocking unlocks what is linked, under the mutex.
EndFrameLocking(t) ==
  /\ IsIdle(t) /\ frame[t] # NoFrame
  /\ LET list == frame[t].list
         items == ToSet(list)
         freed == Without(list, {x \in Item : count[x] > 1})
     IN  IF frame[t].depth > 1
         THEN /\ frame' = [frame EXCEPT ![t].depth = @ - 1]
              /\ UNCHANGED <<lru, count, todo, crashed>>
         ELSE /\ frame' = [frame EXCEPT ![t] = NoFrame]
              /\ crashed' = ~(items \subseteq Cached)
              /\ IF items \subseteq Cached
                 THEN /\ count' = [x \in Item |-> IF x \in items /\ count[x] > 0
                                                  THEN count[x] - 1 ELSE count[x]]
                      /\ lru' = lru \o Without(freed, Item \ Locked)
                      /\ Calls(t, FlattenSeq([i \in DOMAIN freed |-> AfterUnlock(freed[i])]))
                 ELSE UNCHANGED <<lru, count, todo>>
  /\ UNCHANGED <<used, size, statusVars, inFlush, discards, holds, forced, crossed>>

-----------------------------------------------------------------------------
(* Removing and flushing *)

\* Remove looks at the lock count first ...
RemoveItem(t, x) ==
  /\ Starts(t) /\ x \in Cached \ Locked
  /\ Calls(t, <<OnItem("remove", x)>>)
  /\ UNCHANGED <<lruVars, size, statusVars, frame, inFlush, historyVars>>

\* ... and takes the mutex then. Somebody may have locked the item by now.
RemoveUnchecked(t) ==
  /\ At(t, "remove")
  /\ LET x == Current(t).item
     IN  DiscardItems(t, IF x \in Cached THEN <<x>> ELSE <<>>, Tail(todo[t]))

\* A flush takes the unlocked items, or the locked ones too.
LockedToFlush == {<<>>} \cup SetToSeqs(Locked)

\* CDataCacheSection::Flush.
Flush(t) ==
  /\ Starts(t)
  /\ \E list \in LockedToFlush : lru \o list # <<>> /\ DiscardItems(t, lru \o list, <<>>)

\* CDataCache::Flush: not while the flag is set ...
FlushCache(t) ==
  /\ Starts(t) /\ ~inFlush
  /\ Calls(t, <<Flushing("flush")>>)
  /\ UNCHANGED <<lruVars, size, statusVars, frame, inFlush, historyVars>>

\* ... which it is now, by two threads if both found it clear. The manager flushes
\* and calls back.
EnterFlush(t) ==
  /\ At(t, "flush")
  /\ \E list \in LockedToFlush :
       /\ count' = [x \in Item |-> IF x \in ToSet(list) THEN 0 ELSE count[x]]
       /\ used' = UsedWithout(ToSet(lru \o list))
       /\ forced' = (forced \/ list # <<>>)
       /\ Continues(t, Destroys(lru \o list) \o <<Flushing("endFlush")>>)
  /\ lru' = <<>>
  /\ inFlush' = TRUE
  /\ UNCHANGED <<size, statusVars, frame, discards, holds, crashed, crossed>>

EndFlush(t) ==
  /\ At(t, "endFlush")
  /\ inFlush' = FALSE
  /\ Continues(t, <<>>)
  /\ UNCHANGED <<lruVars, size, statusVars, frame, historyVars>>

-----------------------------------------------------------------------------
(* Sizes *)

\* UpdateSize locks the item with the manager ...
UpdateSize(t, x, n) ==
  /\ Starts(t) /\ x \in Cached
  /\ Relocked(x, count[x] + 1)
  /\ Calls(t, <<Sized("resize", x, n), OnItem("unpin", x)>>)
  /\ UNCHANGED <<used, size, statusVars, frame, inFlush, discards, holds, forced, crashed, crossed>>

\* ... reads the size: there is nothing to do if it is the new one ...
ReadSize(t) ==
  /\ At(t, "resize")
  /\ LET x == Current(t).item
         n == Current(t).n
     IN  /\ crashed' = (x \notin Cached)
         /\ Continues(t, IF size[x] = n THEN <<>> ELSE <<SetTo(x, n, size[x])>>)
  /\ UNCHANGED <<lruVars, size, statusVars, frame, inFlush, discards, holds, forced, crossed>>

\* ... sets it, whatever another thread set in between, and makes room ...
Resize(t) ==
  /\ At(t, "setSize")
  /\ LET x == Current(t).item
         more == Current(t).n - Current(t).old
     IN  /\ size' = [size EXCEPT ![x] = Current(t).n]
         /\ crashed' = (x \notin Cached)
         /\ crossed' = (crossed \/ size[x] # Current(t).old)
         /\ Continues(t, (IF more > 0 THEN <<Room("ensure", more)>> ELSE <<>>) \o
                         <<Sized("notify", x, more)>>)
  /\ UNCHANGED <<lruVars, statusVars, frame, inFlush, discards, holds, forced>>

\* ... and then tells the manager.
NotifySizeChanged(t) ==
  /\ At(t, "notify")
  /\ used' = (used + Current(t).n) % WordMod
  /\ Continues(t, <<NoteSizeChanged(Current(t).n)>>)
  /\ UNCHANGED <<lru, count, size, statusVars, frame, inFlush, historyVars>>

Next ==
  \E t \in Thread :
    \/ LoadStatus(t) \/ StoreStatus(t) \/ DestroyResource(t)
    \/ LimitBytes(t) \/ LimitItems(t) \/ Purge(t) \/ PurgeItems(t) \/ Ensure(t)
    \/ Insert(t) \/ LockAdded(t) \/ Pin(t) \/ Link(t) \/ Unpin(t)
    \/ RemoveUnchecked(t) \/ EndFlush(t) \/ ReadSize(t) \/ Resize(t)
    \/ NotifySizeChanged(t)
    \/ \E x \in Item, flag \in BOOLEAN : AddEx(t, x, flag)
    \/ \E items \in SUBSET Cached : LockItems(t, items)
    \/ \E x \in Item : Unlock(t, x) \/ BreakLock(t, x) \/ Reorder(t, x) \/ FrameLock(t, x)
    \/ BeginFrameLocking(t) \/ EndFrameLocking(t)
    \/ \E x \in Item : RemoveItem(t, x)
    \/ Flush(t) \/ FlushCache(t) \/ EnterFlush(t)
    \/ \E x \in Item, n \in NewSizes : UpdateSize(t, x, n)

Spec == Init /\ [][Next]_vars

-----------------------------------------------------------------------------
(* Correctness *)

AllIdle == \A t \in Thread : todo[t] = <<>>

\* Type invariant: the variables keep their types.
TypeOK ==
  /\ lru \in Seq(Item) /\ count \in [Item -> Nat] /\ used \in 0 .. WordMod - 1
  /\ size \in [Item -> Nat]
  /\ {own, all} \subseteq [DOMAIN StatusZero -> 0 .. WordMod - 1]
  /\ frame \in [Thread -> [depth : 0 .. MaxDepth, list : Seq(Item)]]
  /\ Cardinality(FramesInUse) <= Slots
  /\ {inFlush, forced, crashed, crossed} \subseteq BOOLEAN
  /\ holds \in [Thread -> [Item -> Nat]]

\* When no call is under way the shared status has counted the items that are cached,
\* and their bytes unless two calls of UpdateSize crossed: the notes of several threads'
\* adds, discards, callbacks and size changes come after the fact and lose nothing.
SharedStatusCounts ==
  AllIdle =>
    /\ all.items = Cardinality(Cached) % WordMod
    /\ crossed \/ all.bytes = BytesOf(Cached) % WordMod

\* An item leaves once and the client hears of it once: not while the item is
\* still cached, and not twice when eviction, removal and flushes compete.
DiscardedOnce ==
  \A x \in Item :
    /\ discards[x] <= 1
    /\ x \in Cached => discards[x] = 0
    /\ AllIdle /\ x \in Added \ Cached => discards[x] = 1

\* Until somebody breaks locks: the lock count of an item is the locks of the
\* clients, one for each frame it is linked into, and those of calls under way.
LocksAddUp ==
  ~forced =>
    \A x \in Cached :
      LET pins(t) == Cardinality({i \in DOMAIN todo[t] :
                       todo[t][i].op = "unpin" /\ todo[t][i].item = x
                       /\ \A j \in 1 .. i - 1 : todo[t][j].op # "insert"})
          frames == Cardinality({t \in Thread : x \in ToSet(frame[t].list)})
      IN  count[x] = frames + SumFunctionOnSet([t \in Thread |-> holds[t][x] + pins(t)], Thread)

\* Until somebody breaks locks: no frame, handle or call uses an item that is gone.
NothingDangles == ~forced => ~crashed

\* As in datacache.h, "if status updates are moved out of a mutexed section, will
\* need to change these to use interlocked instructions": with plain ones the
\* section's own status counts what is cached too, until somebody breaks locks.
SectionStatusCounts ==
  AllIdle /\ ~forced => own.items = Cardinality(Cached) % WordMod

=============================================================================
