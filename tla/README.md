# TLA+ models of the engine's concurrent and networked core

The repository is a port of the Source engine and of CS:GO (`README.md`,
`MACOS.md`). This project specifies the parts whose correctness depends on the
order of events: messages that are lost or overtaken, threads that interleave,
calls that fail half way. Modules are checked with TLC on small instances; the
results that matter most are proved with TLAPS for every value of the constants.

- [Inventory](#inventory): what the system consists of
- [Plan](#plan): the modules there are and those to come
- [NetChan](#netchan), [SplitPacket](#splitpacket), [DataManager](#datamanager),
  [DataCache](#datacache), [JobQueue and ThreadPool](#jobqueue-and-threadpool),
  [TSQueue](#tsqueue): the models
- [Runs and bounds](#runs-and-bounds), [Proofs](#proofs), [Disagreements found](#disagreements-found),
  [What is not modelled](#what-is-not-modelled)

## Inventory

Each entry: the state a component keeps, its operations, what it talks to, what
is hard about it, and what makes it correct.

**Net channel** (`engine/net_chan.cpp`, `net_chan.h`). One `CNetChan` at either
end of a connection. State: sequence numbers in and out, one bit per subchannel
in and out, eight subchannels, a waiting list and a receive buffer for each of
two streams (messages, files). Operations: `SendNetMsg`, `SendData`, `SendFile`,
`Transmit`/`SendDatagram`, `SetChoked`, `ProcessPacket`, `Clear`. Called by the
clients' and the server's frame loops; calls the message handlers, which may
call back into the channel (`Clear` on a level change). Hard: loss, repetition
and reordering of datagrams, `Clear` with data on the wire, two streams in one
packet, handlers that fail. Correct when: each message is handled in order and
once, the bits of both ends agree, everything sent arrives.

**Data manager** (`tier1/datamanager.cpp`, `public/tier1/datamanager.h`). A
cache of resources with handles (serial number and index), lock counts, an LRU
list and a memory target. Operations: create, lock, unlock, break locks, touch,
age, destroy, flush, purge, set the target. Called by the data cache and by
sound and texture caches of several threads, with a mutex for single steps and
none for the loop of `EnsureCapacity`. Hard: eviction between a lookup and a
lock, reuse of handles, sizes that change, storage destroyed outside the mutex.
Correct when: handles are never aliased, locked resources stay, lists and lock
counts agree, the memory in use is the sum of the sizes, storage is destroyed
once.

**Data cache** (`datacache/datacache.cpp`, `datacache.h`). Sections of clients
on one shared manager: adds limits per section, status records, notifications
of clients and frame locks (locks of a thread that are returned together).
Hard: every call is several steps on the manager, and the manager calls back
without its mutex. Correct when: the status counts what is cached, clients
hear of each discarded item once, lock counts are the locks somebody holds.

**Sockets and split packets** (`engine/net_ws.cpp`,
`net_ws_queued_packet_sender.cpp`). State: a sequence number per channel, a queue
of fragments with the time each is to be sent, and per socket one entry (buffer,
count of missing fragments, a flag per fragment) for each address. Operations:
`NET_SendLong`, the sending thread's `Run`, `NET_GetLong`,
`NET_DiscardStaleSplitpackets`; called by `NetChan` through `NET_SendPacket`.
Hard: fragments of several datagrams interleaved, repeated and overtaken in one
entry, numbers that start again. Correct when: a reassembled datagram is one
that was sent, and none is lost while the network behaves.

**Thread primitives** (`tier0/threadtools.cpp`, `public/tier0/threadtools.h`,
`public/tier0/tslist.h`). Mutexes, events, read/write locks on one word,
lock-free lists and queues with a counter against ABA. Hard: every instruction
interleaves, nodes are used again while other threads read them. Correct when:
mutual exclusion, no lost wake-up, nothing lost or popped twice, calls return.

**Job thread pool** (`vstdlib/jobthread.cpp`, `public/vstdlib/jobthread.h`).
Jobs with status, mutex, event and reference count; worker threads, a shared
queue and a direct one per worker, with priorities; suspension, abort, callers
that run jobs while they wait. Called by the filesystem, the renderer, the
particle system and the game; calls the jobs. Hard: abort against execution,
jobs in two queues, wake-ups, suspension from two sides, shutdown with jobs
queued. Correct when: each job runs at most once, references add up, waiting
ends, a suspended pool is still.

**Network string tables** (`engine/networkstringtable.cpp`). Strings with user
data and the tick they changed in; clients are sent the changes since the tick
they acknowledged. Correct when: tables converge whatever is lost.

**Snapshots and delta frames** (`engine/baseclient.cpp`, `sv_framesnapshot.cpp`,
`sv_packedentities.cpp`, `clientframe.cpp`). Reference-counted snapshots, delta
from an acknowledged tick, baselines that two sides must switch together.

**Connection and signon** (`engine/baseclientstate.cpp`, `sv_client.cpp`,
`client.cpp`) and **host state** (`engine/host_state.cpp`). Signon states on
both ends, reconnects and level changes; clears the channel on the way.

**Queued loader, model cache** (`filesystem/QueuedLoader.cpp`,
`datacache/mdlcache.cpp`), **matchmaking** (`matchmaking/sys_session.cpp`),
**coordinator jobs** (`gcsdk/job.cpp`, `jobmgr.cpp`), **game rules**
(`game/shared/cstrike15/cs_gamerules.cpp`): control cores that rest on the parts
above or on services outside the repository. The remaining components
(rendering, audio, physics, user interface, tools, third-party code) are listed
with the reason they are left out in `PROJECT.json`.

## Plan

In the order of importance; all stages exist but the seventh.

1. `NetChan` and its abstraction `ReliableChannel`: everything two processes say
   to each other passes through it. Proofs of the alternating bits.
2. `DataManager` and `ResourcePool`: handles, locks, eviction. Proofs of lists
   and handles.
3. `DataCache` on top of it, the manager's operations as single steps.
4. `SplitPacket`: reassembly under `NetChan`. Proofs of the count and of whole
   deliveries.
5. `JobQueue`, and `ThreadPool` which composes it with jobs, workers and clients;
   liveness of jobs. Proofs of the queues' balance and of single execution.
6. `TSQueue`, the lock-free queue under the job queues, in all its steps, and
   `JobQueueNodes`, the job queue over it.
7. The string tables and the snapshot/baseline exchange on an abstract channel;
   signon and level change on a channel with `Clear`.
8. More proofs. Done: the types, storage, locks and used memory of `DataManager`
   and its refinement of `ResourcePool`; `NothingLost` of `SplitPacket`; types,
   references and suspension of `ThreadPool`; fragments, types and the refinement
   of `ReliableChannel` by `NetChan`, and the order it keeps with `Clear`; all that is
   checked of `DataCache`; all safety properties of `TSQueue`, also as `JobQueueNodes`
   uses it. Left: what is beyond the prover (liveness).

Modules are written to be proved about: bounds and parameters are constants with
named assumptions, one action per operation, no recursive operators.

## NetChan

`NetChan.tla` is the reliable half of the channel, both ends of it. Variables are
the members of `CNetChan` indexed by peer (the comment at each names the
member); `net` is the set of datagrams under way. One action is one call into
the channel:

| action | code |
| --- | --- |
| `SendNetMsg`, `SendFile` | `SendNetMsg`/`SendData`; `SendFile`, `EnqueueVeryLargeAsyncTransfer` |
| `SetChoked` | `SetChoked`: a sequence number without a datagram |
| `SendDatagram` | flush of the stream into the waiting list, compression, `UpdateSubChannels`, the first subchannel to send, the header |
| `ProcessPacket` | `ProcessPacketHeader`, `ReadSubChannelData` per stream, the bit, `CheckReceivingList` with the handlers, which may call `Clear` (and fail, which no run lets them) |
| `Clear` | `Clear` called by the engine |

Data is abstract: a message is a model value with a size, a fragment is the item
it belongs to. The contents of a buffer slot are `Junk` until it is written; a
buffer with slots of two items is handled as the message `Garbled`. A single
block (`bSingleBlock`) is the case `start = 0`. Compression may shrink a head by
any amount. The network may lose (never deliver), repeat, delay and reorder; a
datagram older than `MaxDelay` sequence numbers is dropped from the model.
`Outbox` is what the users of the channel will send, in order and without a gap:
`SendNetMsg` and `SendFile` take the next entry.

`ReliableChannel.tla` is what the channel promises while nobody clears it: per
direction and stream a queue that loses nothing, repeats nothing and keeps a
message until it was handled. `ImplementsChannel` is that refinement.

Properties worth explaining: `BitsAgree` says how the out bit, the in bit of the
other end and every datagram in between relate in each of the four subchannel
states, so that an acknowledgement cannot be taken for one of an earlier use.
`PendingIsInFlight` ties the counters of a waiting item to the subchannels that
carry its fragments. `HandledInOrder` is the promise that is left once `Clear`
is allowed: messages may be missing, and a buffer that `Clear` left with pieces of
two items may yield one that is `Garbled`; all others come in order and once. The
history variable `torn` names the peers that have stored a part of a packet and then
dropped it, which is where that promise ends: the part counts again when the packet
is resent (`DroppedDataHandledOnce`, which the code does not keep).

`MCNetChanLive.tla` adds time: both ends tick in turn, at most `MaxLosses`
datagrams are lost. Fairness is weak fairness of the whole step relation: the
frame loop of a connected end keeps transmitting and the socket keeps being
read, which is what `Host_RunFrame` does in both processes. Under it everything
arrives (`AllArrives`) and the channel comes to rest (`EventuallyIdle`).
The numbers of sequence steps are bounded; they leave room for every resend the
allowed losses can make necessary.

## SplitPacket

`SplitPacket.tla` models one channel that sends datagrams too long to be routed
and the entry the receiver keeps for its address. `Split` is `NET_SendLong`: the
first `SplitRate` fragments go to the network, the others to the queue of
`CQueuedPacketSender`, from which `SendQueued` takes them in any order (the times
of different channels and datagrams overlap). `GetLong` follows `NET_GetLong`
from the decoding of the 16-bit `packetID` to the delivery; `DiscardStale` removes
the entry. A fragment's data is the datagram and number it holds.

Faults are counted together (`MaxFaults`): a fragment lost, repeated or
overtaken, a send that fails half way, a `Reset` that starts the numbers again,
a datagram sent although `CanPacket` says no (reliable data is), and an entry
found stale while fragments are under way.

`CountsMissing` and `DeliveredWhole` hold under all faults for sequence numbers
used once. `NothingLost` is what `CanPacket` is for: without faults, the
fragments of one datagram never make the entry forget another's.

## DataManager

`DataManager.tla` models all threads inside `CDataManagerBase`. The lists are
sequences of element indices, a handle is a serial number and an index, storage
that still exists is in `alive`. What runs under the mutex is one action.
The loop of `EnsureCapacity` reads without it and is three actions (`TestUsed`,
`TestAvailable`, `Evict`), followed by `DestroyResourceStorage` outside the
mutex; `Purge` reads the memory in use twice. `task[t]` says where a thread is.
`Resize` and `NotifySizeChanged` follow `CDataCacheSection::UpdateSize`, the only
caller that changes a size; what it reads and writes of the size before it calls
the manager is one step. A thread only unlocks what it has locked.

`ResourcePool.tla` is the abstraction: resources that are created, locked,
dropped and destroyed; only an explicit break or forced flush drops a locked
one, and storage goes once, after the drop. `ImplementsPool` is the refinement.

`StorageOwned` says where storage exists: for the resources in the lists and for
those one thread has taken out and is about to destroy, each by one thread.
`UsedIsTotal` compares `m_memUsed` with the sizes the manager has been told
(`Told`: the size of a resource, or the old one while a change is not notified).

`LocksProtect` and `UsedIsTotal` exclude states after locks were broken
(`forced`), and `UsedIsTotal` also those after two threads changed the size of one
resource at the same time (`crossed`): each notifies the difference to the size it
read, and neither is the one the manager was told last. The code gives no promise
in these.

## DataCache

`DataCache.tla` models the calls of several threads on one section, and the
flush of the whole cache. Each call is a list of steps `todo[t]`; an operation
of the manager, which holds the mutex, is one step, and so is each access to the
status records. The plain `+=` of the section's own status is a load and a
store; the interlocked changes of the shared status are one step. The section's
limits read its own status, so what limits evict follows the raced values.
`UpdateSize` locks the item, reads its size (`ReadSize`), sets it and makes room
(`Resize`), and only then tells the manager (`NotifySizeChanged`) and the status,
without the mutex from the read on. The flush of the whole cache looks at `m_bInFlush`
(`FlushCache`) before it sets it (`EnterFlush`), so two threads may both be in it.
In `AddEx` the room that `EnsureCapacity` and then the manager's `CreateResource`
make is one loop: the second continues the first. `crashed` stands for the use of
an item that is gone.

Only counters some call reads are kept: the counters of locked items are not.
Once locks were broken, calls only return locks and frames (a bound, `Starts`),
and the properties of locks promise nothing.

`SharedStatusCounts` compares the shared status with the cache whenever no call is
under way: the items always, their bytes until two calls of `UpdateSize` crossed. When
both read the same old size (`datacache.cpp:822`), each notes the difference to it, and
the bytes of the status are wrong for good. The history variable `crossed` is set by
the write that finds another size than was read. `DiscardedOnce` counts the
notifications of a client per item. `LocksAddUp` accounts for every lock of every item: locks of clients, frames and
calls under way. `NothingDangles`: until locks are broken nobody uses an item
that is gone.

## JobQueue and ThreadPool

`JobQueue.tla` is `CJobQueue`, for any number of queues: `PushItem` and
`CountItem` are the two halves of `Push`, `Reserve`, `Skip` and `Take` the parts of
`Pop`, which reads the queues of each priority with no lock held. `ExpectedItem`
is the assertion in `Pop`: a thread that took an item off the count finds one.

`ThreadPool.tla` extends it with `CThreadPool`, `CJobThread` and `CJob`. `thread[t]`
says where a thread is, at which job, how it got there (`mode`: from a queue,
executing, aborting, or emptying a queue) and for which operation. `Service` is
what all have in common: the check of the status, the lock, the second look
under it, `DoExecute` or `DoAbort`, the event, the release. `Work` is
`CJobThread::Run`, with the calls of `CWorkerThread` and `CThread::Suspend`.
Clients add jobs (directly executed when no worker is idle), raise their priority,
execute, abort and release them, wait for them while they service the shared
queue, suspend and resume the pool, by themselves or around `AbortAll` and
`ExecuteAll`, and stop it while no other client uses it. `AbortAll` goes from the
shared queue to the direct ones, in the order of `m_Threads` (`Index`), each until
`Pop` finds nothing (`AbortNext`). `ExecuteAll` goes by priority and queue, looks at
the count of that priority (`CountNext`), pops from all priorities (`ExecuteNext`) and
services what it has popped without asking whether it has: when there was nothing, the
process is gone (`Crashed`), and no step follows. `Stop` deletes the workers with their
direct queues (`Join`): the references of the jobs in them are `lost`, and nobody calls
these jobs. The replies to a call
are not waited for: `WaitForReply` gives up in time, and the code that suspends
looks at `IsSuspended` for that reason.

Fairness is weak fairness of each worker and of each client in an operation it
has begun, which includes that jobs return and that a suspension is ended; what
clients begin is up to them. Under it a queued job is executed or aborted and
its event set (`JobsFinish`), unless it was lost with a direct queue or the process
is gone.

`CalledOnce` relates a job's status to the calls of `DoExecute` and `DoAbort`.
`RefsAddUp` relates its references to the clients, threads and existing queues that
have one: what is left over is exactly what `Stop` lost.
`SuspendedStill` and `CallsAlone` are about nested suspensions by several
clients. `JobsThere` says when `ExecuteAll` may be used: as long as one client is the
only one to use the pool, it never services a job that is not there. It rests on the
suspension, since a worker that takes a job between the count and the `Pop` would do.
With a second client, which waits and takes the job, or has pushed one and not counted it
yet, `Crashed` is reached in the same run.

## TSQueue

`TSQueue.tla` is the lock-free queue with one action per access to memory other
threads write; `local[t]` holds a call's local variables. Nodes go on a free list
and are used again at once, so that a thread may hold a pointer to a node that
has been popped, freed and pushed again. The free list is atomic: it is a
`CTSListBase`, whose head has a number of its own. `NothingLost` compares the
nodes with a history of the calls when none is under way, `ListWhole` looks at the
list in between, `CallsReturn` is what helping others along is for: with weak
fairness of the steps of each call, the tail that a failed `FinishPush` leaves
behind stops nobody.

`JobQueueNodes.tla` puts `CJobQueue` over it (one priority). There `ExpectedItem`
of `JobQueue` fails: see `JobQueueRace` under [Disagreements found](#disagreements-found).
`JobQueue` and `ThreadPool`, with queues that are atomic, show what the rest of the
code does when the queue keeps its promise.

## Runs and bounds

| run | instance | shows |
| --- | --- | --- |
| `NetChanSingle` | 2 subchannels, items of up to two fragments, compression, delay 2 | types, bits, fragments, refinement of `ReliableChannel` |
| `NetChanStreams` | messages and two files one way, up to two fragments in a packet, a message the other way, `Clear` by the engine at one end and by a handler at the other | bits, headers, accounting and order with two streams across `Clear` |
| `NetChanLive` | two losses, two messages of the server; both ends tick | arrival and rest |
| `NetChanPartialRead` | a message and a file that share packets | a message handled twice, as its packet was dropped in part (violated) |
| `NetChanStaleBuffer` | `Clear` at one end | fragments in a stale buffer (violated) |
| `DataManager` | 2 threads, 2 resources, up to two resizes or changes of target | all properties of the manager, refinement of `ResourcePool` |
| `DataCache` | 2 threads, 2 items, any number of resizes, one free frame, frames not nested, at most two client locks and open frames at a time and one after size changes crossed (`FewLocks`) | all properties of a section |
| `DataCacheStatus` | 2 threads, 2 items | a lost update of the section's status (violated) |
| `SplitPacket` | 3 datagrams of 2 or 3 fragments, two split sizes, one fragment sent at once, 3 faults | the count of missing fragments, whole deliveries, nothing lost without faults |
| `ThreadPool` | 1 worker with two jobs or two suspending clients, 2 workers with a serial or a default job; 2 priorities, up to 2 operations on the whole pool | all properties of pool and queues, jobs finish, `ExecuteAll` of one client finds what it counted |
| `TSQueue` | 3 threads with 1, 1 and 2 calls, or 2 with 2 and 3; 6 nodes | all properties of the queue, calls return |
| `JobQueueRace` | 2 threads with 2 and 3 calls | an item counted and not to be found (violated) |

Why the bounds are enough to be of use: two subchannels are the least on which
one is reused while the other waits, and the alternating bit is the hard part of
each. Items of more than one fragment exercise partial arrival; a window of one
or two sequence numbers lets a datagram be overtaken by, or repeated after, the
ones that reuse its subchannel. Two threads and two items give every pair of
concurrent steps an item to compete for and another one to evict. Nested frames, of which
the inner ones only count, and more locks at a time are left to the theorems about
`DataCache`, which hold for any `MaxDepth` and `MaxLocks`. Counters wrap
at a small power (`WordMod`) so that the wrap is met. Three faults are enough to lose, repeat and
overtake, or to interleave two datagrams and repeat a fragment of one; three
datagrams let one entry turn to another datagram and back. One or two workers
and two clients give a job that is in two queues, is executed and is aborted at
the same time, and suspensions that overlap; two priorities give `Pop` a step
between queues. Three threads on the queue give one that holds an old node while
two others use it again. Runs without a deadlock check stop by design: the
bounds on sequence numbers, calls or faults are used up, the clients have nothing
left to do, or the model of the cache has crashed. Where symmetry is used, threads and items are
interchangeable and no property is a liveness property.

## Proofs

Eight modules hold theorems. Those named below are listed in `PROJECT.json`; each
holds for every value of the constants that the assumptions of its module allow,
and each rests on an invariant that is inductive.

### The channel: `NetChanProofs.tla`, `NetChanOrder.tla`

For any number of subchannels, messages, sizes, losses and delays, and any number
of calls of `Clear`:

- `HeaderTypeCorrect`: the types of the state `ProcessPacketHeader` works on;
- `BitsAlwaysAgree`: `Spec => []BitsAgree`;
- `HeaderCorrect`: `Spec => []HeaderAlwaysValid`, so the branch "reliable state
  invalid" is dead code between two channels of this kind;
- `FragmentsCarried`: `Spec => []PendingIsInFlight`;
- `ChannelTypeCorrect`: `Spec => []TypeOK`.

The argument goes in three layers, one invariant on top of the other.

`IInv` is `HeaderTypeOK /\ BitsAgree`. Sequence numbers never run ahead
(`SequenceInv`), and for a subchannel `SubChannelInv` relates the three copies of
its bit by state. A step changes one subchannel per packet, so the proof goes by
action and, in `ProcessPacket`, by the state the subchannel was in.

`DInv` adds the data. The head of a waiting list is related to the subchannels
that carry it (`Carry`): what is pending is the sum over them, their pieces are
disjoint and end where the head's sent part ends. That nothing is under way for an
empty list is part of it; without it, removing a head might leave a subchannel
that carries fragments of the next one. A receive buffer has the size
of the item it was opened for (`Allocated`), and what a datagram carries fits its
item (`Piece`). How each change of a subchannel or a head changes the sum is first
said of values, without the actions.

`CInv` adds the other end, under `Steady`: nobody clears the channel, no handler
fails, and a direction uses one stream.

- `ChannelImplemented`: `Spec => ImplementsChannel`, the refinement of
  `ReliableChannel`;
- `BuffersOfOneItem`: `Spec => []FragmentsOfOneItem`.

The receive buffer goes with the sender's head (`Follows`). The untaken part of the
flight are the subchannels whose bits differ: the buffer is empty while the
untaken part is all that was sent, freed once everything has come, and otherwise
holds exactly the fragments that are not in the untaken part (`Collected`). The
messages of a queue are cut in three (`Placed`): those released, those of the items
on the waiting list, cut at the places `off`, and those in `m_StreamReliable`. The
handlers have seen the queue up to the head, or past it when all of it has come.
A datagram that is not overtaken carries what its subchannel does (`DataFresh`),
because a subchannel is not used again before its datagram is overtaken, which is
`SubChannelInv` again. For the
refinement, `released` is the first place: the lengths of the items held are
differences of neighbouring places, and their sum telescopes (`HeldIs`).

The three conditions of `Steady` are those under which the code keeps the promise.
With two streams in a packet the fragments of the first may be stored although the
packet is dropped and sent again (`NetChanPartialRead`); a `Clear` may leave a buffer
with pieces of two items (`NetChanStaleBuffer`); a failed item is handled again.
A theorem without them would be false.

`OInv` (`NetChanOrder.tla`) is about what is left without `Steady`: any number of calls
of `Clear`, from the engine or from a handler, and both streams in every direction.

- `OrderKept`: `FailMsgs = {}` implies `Spec => []HandledInOrder`.

`LosslessAt` does not survive `Clear`: what the other end has of the head is no
longer what the flight says, messages are missing, a buffer may hold pieces of two
items. What survives is an order of four things in the queue (`InOrder`): the messages
handled are among its first `h`, in order (`Ascending`); the item of the receive buffer lies
between `h` and `m`, and `m` is where the items opened so far end; the items whose
first fragment is in a datagram not overtaken lie behind `m`, in the order of the
sequence numbers (`Travels`, which names the places `at` and `to` of each datagram,
since the head it was cut from may be gone); and what the sender still has to open begins at
`Front`. That is the head, unless its first fragment has been read, and the item
after the head if it has. A fragment that is not the first opens nothing, into
whatever buffer it goes, so only first fragments (`start = 0`) matter. Reading one takes its place
from `Travels` and moves `m` there; handling moves `h` to the end of the buffer's item.
A resent head keeps its place, and `Clear` moves `Front` behind all that was put in.
That `Front` never goes back when an acknowledgement frees a subchannel or
takes a head off the list (`HeaderInOrder`) rests on `IInv` and `DInv`: a subchannel
acknowledged was read.

The two conditions are again those of the code. A failed buffer is handled anew with
the next packet, and a peer in `torn` reads a first fragment twice, the second time
behind later items. When no handler fails, a buffer that stays after its handlers
were called was `Garbled` (`FailedGarbled`), and counts for nothing.

### Reassembly: `SplitPacketProofs.tla`

For any packets of 1 to 127 fragments, split sizes, rates and faults:

- `TypeCorrect`, `CountsCorrect`, `DeliveredCorrect`: `Spec => []TypeOK`,
  `[]CountsMissing` and `[]DeliveredWhole`;
- `NothingIsLost`: `Spec => []NothingLost`.

The conjunction of the first three is inductive (`InvIsInductive`). `CountsMissing`
names the set of fragments that have been counted; `OneMoreCounted` shows that a
fragment either is in it already, which is what its flag says, or joins it, and that
the count is zero exactly when the set is everything. That flags and the entry's
number are known (`TypeOK`) is needed when a packet is split: its new number must
not be one the entry already holds. `Packing` and `Decode` show that the receiver
reads from the 16-bit `packetID` what was put in.

`NothingLost` needs more: `Regular` says of every packet, while there were no
faults, that it is delivered, or being put together with exactly the fragments
that have come, or has still to begin, and that fragments are under way in the
order of their packets (`LineUp`). Only then does a fragment that switches the
entry to another packet find nothing there to forget. The assumptions are
`CountAssumption`, `SizeAssumption` and `LimitAssumption`.

### The data manager: `DataManagerProofs.tla`

For any finite number of threads, any resources, sizes, locks and targets:

- `ListTypeCorrect`, `ListsAlwaysAgree`: elements are on exactly the list their
  lock count and store say, each once;
- `HandlesCorrect`: a handle leads to its resource or to nothing;
- `TypeCorrect`: `Spec => []TypeOK`;
- `StorageCorrect`: `Spec => []StorageOwned`;
- `LocksAlwaysProtect`: `Spec => []LocksProtect`;
- `PoolImplemented`: `Spec => ImplementsPool`, the refinement of `ResourcePool`;
- `UsedCorrect`: `Spec /\ []Fits => []UsedIsTotal`.

The inductive invariant of the first three has besides them that serial numbers of
elements only grow with reuse and an issued handle is never ahead of its element
(`HandlesCounted`), and what the tasks of threads carry (`TasksOK`): without the
count, nothing keeps a reused element from the serial of an old handle. It holds
up to the wrap of the 16-bit serial, which the model excludes (`MayFree`).

The second half adds that the handle of a resource in the lists is the one its
element would get now (`Stored`), so that no two elements hold the same resource;
that what a thread is about to insert has no handle yet, and what exists has one
(`Fresh`); and that lock counts are sums over threads (`LocksCounted`). With these,
each step is one of the pool: `Stored` turns the `CHOOSE` of the refinement mapping
into the one element there is. `UsedInv` says that who changes a size holds a lock
until the change is counted: a resource is not dropped between the two. `m_memUsed`
is a 32-bit word, so the theorem about it has the hypothesis `Fits`: what the
manager has been told fits the word at all times. Past it `m_memUsed` wraps, and so
does the memory available that `EnsureCapacity` reckons with. `ManagerAssumption` asks for a finite
number of threads, sizes and targets that are numbers, and word and serial sizes of
at least two.

### Job queues and pool: `ThreadPoolProofs.tla`

Of the job queues alone, for any finite number of threads and any queues and
priorities:

- `QueuesAddUp`: items in a queue are those counted, plus one for each thread
  that has yet to count its push, plus one for each that looks for the item it
  took off the count (`AllAccounted`); and below every priority there are at least
  as many items as threads that have got down to it (`EnoughBelow`);
- `ItemExpected`: `Pop` over atomic queues finds its item.

`AllAccounted` alone does not do: a thread may have passed a priority before an
item came there. `EnoughBelow` is the condition of Hall's theorem for threads and
the items they can still reach. It is inductive because a thread goes down
only from an empty queue, where everybody who is at that priority or below needs
an item below, and one that takes an item leaves with it. The proof works with
cardinalities of the sets `Scanners`, `Counters` and `Places`, each of which a step
changes by at most one element.

Of the pool, for any finite numbers of workers and clients and any jobs and
priorities:

- `PoolUsesQueues`: `Spec => QSpec`, so what holds of the queues holds in the pool;
- `PoolItemExpected`: `Spec => []ExpectedItem`;
- `JobsCalledOnce`: `Spec => []CalledOnce`.

The inductive invariant `PInv` has, besides types, where a thread can be in which
operation (`ThreadsInOrder`), that a thread at work under a job's mutex is its
owner and has the status it set (`OwnersAlone`), and that the status tells whether
the job was called (`JobsInOrder`). Without `OwnersAlone` two threads may both pass
the check of the status and call the job.

The last part goes on from there:

- `PoolTypeCorrect`: `Spec => []TypeOK`;
- `WorkersStaySuspended`: `Spec => []SuspendedStill`;
- `WorkersCalledOnce`: `Spec => []CallsAlone`;
- `ReferencesAddUp`: `Spec => []RefsAddUp`;
- `CountedJobsThere`: `Spec => JobsThere`.

Its invariant `SInv` says where every thread can be for which operation
(`InPlaces`), and of the suspension: one client at a time calls the workers, and
only while the pool is not suspended; `m_nSuspend` is the sum over clients of the
suspensions they have not ended, nested ones and those of an operation under way
(`OneSuspends`); a client that waits for the workers has called them all (`Targets`);
nobody else is at work while a client stops the pool (`StopsAlone`, which is how
`Stop` is to be called); and workers are awake exactly while nothing is suspended,
being suspended or stopped (`Awakened`). `SuspendedStill` by itself is not inductive:
that a second client's suspension finds the workers still suspended depends on the
count. A reference of a job is held by a client (`Holders`), a place in a queue
(`Queued`) or a thread that will release it (`Serving`); the count, less what was lost
(`Due`), is the sum of the three cardinalities, and each step moves a reference or adds
one. `Join` moves the places in the direct queues to what was lost and takes those in
the shared queue off the count (`QueuedFlushed`).

`LoneInv` adds that the other clients have nothing to do and never will (`Lone`), and
that while the one client is between the count and the `Pop` of `ExecuteAll`, the
priority whose turn it is (there is one, `TurnAlone`) has an item. Nobody takes that
item away: the workers are suspended (`WorkersStill`, from `SInv`) and the others
have nothing to do (`OthersStill`). `Pop` finds it counted, because by `AllAccounted`
an item that is not counted belongs to a thread that is in `Push` or `Pop`
(`ItemCounted`).

### The data cache: `DataCacheProofs.tla`

For any finite numbers of threads and items, any sizes and any limits:

- `CacheInvariant`: `Spec => []Inv`, from which the others follow;
- `CacheTypeOK`, `CacheStatusCounts`, `CacheDiscardsOnce`, `CacheLocksAddUp`,
  `CacheNothingDangles`: `TypeOK`, `SharedStatusCounts`, `DiscardedOnce`, `LocksAddUp`
  and `NothingDangles` hold in every reachable state.

Between the steps of a call nothing these properties say is true by itself: an item is
out of the lists and not yet discarded, locked and not yet linked, counted and not yet
cached. What is missing is in the steps the threads have still to do, so the invariant
weighs these. `Owing(W)` is the sum over threads of `Total(W, todo[t])`, what `W` makes
of each step in the list of `t`:

- `Noted`: the items of the shared status, plus what the steps to come will add to them
  (`Owes`), are the number of items cached, modulo the word. The same is said of the
  bytes while no two changes of a size have crossed (`Sure`): the note is the difference
  to the size that was read, which is by how much the size changes only if it is still
  that one. `Noted` holds also after locks were broken.
- `Life`: an item is inserted once. Then it is cached, or one step to come destroys it,
  or its client was told.
- `Kept`: until locks are broken, the lock count of an item is the sum of the threads'
  shares: locks the client holds, frames it is linked into, and unlocks to come.
- `Ready` says what a list of steps may look like. An item is linked or resized under
  a lock that the next step returns (`Followed`); an insertion comes before every step
  that needs the item, and returns one lock on it (`Ordered`, `Announced`). Without
  the last, a lock of an item that is not in the cache yet counts for nothing and
  its unlock would take somebody else's.

A step replaces the head of one list by the steps it leads to, so each proof compares
the weight of the head with that of the steps put in its place. An eviction of several
items is the one step whose weight is itself a sum, over the items it removes. The
assumption is `CacheAssumption`: finite sets of threads and items, sizes that are
positive, limits that are numbers, at least one slot for frames and a word that holds
more than zero.

### The lock-free queue: `TSQueueProofs.tla`

For any finite number of threads, any number of nodes and any calls:

- `QueueInvariant`: `Spec => []Inv`;
- `QueueTypeOK`, `QueueListWhole`, `QueuePoppedOnce`, `QueueNothingLost`: `TypeOK`,
  `ListWhole`, `PoppedOnce` and `NothingLost` hold in every reachable state;
- `JobQueueUsesQueue`: `JSpec => Init /\ [][Next]_vars`, the steps of the job queue over
  this one are its steps;
- `JobQueueKeepsItems`: so the last three hold in `JobQueueNodes` too. What `JobQueueRace`
  finds there is an item that is late and not one that is lost.

The properties are about lists, and a list is what `Chain` reaches, which no step keeps
in view. The invariant speaks of single nodes instead. It says that there are a place
for every node (the queue, the free list, one thread's hands, or memory not used yet),
and positions that ascend by one along `pNext` within a place (`Lists`, `Roots`): then a
step that writes one link disturbs what is said of one node. It is an existential
statement, `\E own, pos, older`, as the code keeps no such thing; each step gives the new
ones. A thread's hands may hold a list and not only a node, since the swap of `pNext` has
no sequence number and a push may hang its node behind one that another thread has
taken: both come into the queue when that thread goes on. `older` is an order of the
threads by when they took their node. A thread about to append behind a node in
another's hands took its own first, so no two append behind each other and nodes are
never linked in a circle.

`Knowing` says what a thread's local variables are worth: what it read of head, tail
and next is true as long as the sequence number it read is the current one, and of no
use to its compare-and-swap otherwise. `Items` relates nodes to items: every item pushed
and not popped is in one node or in the hands of the thread that pops it. `Counted` is
how far `m_Count` lags behind the threads about to change it. Only at the end is a
place shown to be what `Chain` computes. The assumption is `TSQueueAssumption`: finitely
many threads, and `End()` and `NULL` neither nodes nor the same.

### Finite sums: `FiniteSums.tla`

What `SumFunctionOnSet` computes is needed wherever something is counted over threads,
subchannels or items. The module shows that its recursive function exists for finite
sets and that an element may be taken out in any order (`SumExists`, `SumRemove`), and
from that what the proofs use: a sum with one value changed, over two parts, of zeros
and ones, negated, of two functions, and one carried over to another set. The induction it
takes is an argument by a least counterexample (`SubsetInduction`): the library's
theorems about well-founded relations and finite sets give a minimal set for which
the statement fails, which needs no theorem with an operator parameter.

### What is only model-checked

Of the invariants that hold, none. Liveness under fairness is out of the prover's
reach, and so is `ENABLED`; it is checked in `NetChanLive`, `ThreadPool` and
`TSQueue`. What recursive definitions compute for every input cannot be proved by the
library's induction theorems, which take an operator as a parameter; sums are the one
place where the models need it, and the argument there goes through sets instead.

## Disagreements found

- `NetChanPartialRead`: `net_chan.cpp:2919` says a packet with an unreadable
  stream is dropped whole; the fragments of the stream before it stay stored and
  counted while the packet's bit is not flipped. A message complete in them is handled with
  the next reliable packet that is read and again when the packet is resent; of a
  longer message one fragment is counted twice, and it is refused as having too many.
- `NetChanStaleBuffer`: `net_chan.cpp:1810` says the receiver waits for a retry when
  the first fragment is missing; with a buffer left from an item the sender
  has cleared, it stores the fragment there.
- `DataCacheStatus`: `datacache.h:338` asks for interlocked instructions if status
  updates leave the mutexed section; `AddEx` (`datacache.cpp:235`) makes them
  outside of it with plain ones.

- `JobQueueRace`: `Push` of `CTSQueue` swaps the tail's `pNext` from `End()` to the new
  node (`tslist.h:876`). Sequence numbers guard head and tail, but not `pNext`: the
  node may have been popped and freed by then, and another thread may have
  taken it for an item of its own, set its `pNext` to `End()` and not linked it yet.
  The new item hangs behind a node that is in no queue until that thread goes
  on. `Push` of `CJobQueue` returns, the item is counted, and a `Pop` finds all
  queues empty: the assertion at `jobthread.cpp:148` fails. Without assertions the
  count is put back and `Pop` returns false; the item turns up later.

Also met, without a run of their own:

- `SetOptions` (`datacache.cpp:1153`) loops while there are sections and never ends
  properly; the counters of locked items go below zero (`datacache.cpp:445`), as
  `AddEx` and `FrameLock` lock through the manager first.
- After a handler failed, the complete buffer stays and the next reliable packet
  runs the item's messages again (`net_chan.cpp:2594`); a receiver that clears with
  an item half received refuses the rest of it for good (`net_chan.cpp:392`).
- `CNetChan::Reset` starts the split sequence again (`net_chan.cpp:3338`) while the
  receiver keeps flags and buffer for up to 15 seconds, and the queue of the
  sending thread is not cleared. At 1024 queued fragments further ones are dropped
  and reported as sent (`net_ws_queued_packet_sender.cpp:174`). The packet number
  is a signed byte (`net_ws.cpp:1231`) and `MAX_SPLITPACKET_SPLITS` is larger.
- `jobthread.h:86` says serial jobs are not executed out of order; their priority
  decides, and `ChangePriority` puts one on the shared queue, where any worker
  takes it (`jobthread.cpp:830`). A job that waits for a serial job on the worker of
  the serial jobs waits for ever.
- `ExecuteToPriority` looks at `Count` and not at what `Pop` returns
  (`jobthread.cpp:864`): with a client that waits at the same time, or one between the
  two halves of `Push`, the job is not there and is serviced all the same. `ThreadPool`
  does what the code does (`Crashed`); no line of the repository promises otherwise.
  `CJobQueue::Push` at its limit services the job it is about to push, not
  the one it took out (`jobthread.cpp:108`); the limit is `INT_MAX`.
- `Stop` flushes the shared queue and deletes the direct ones with what is in them
  (`jobthread.cpp:1259`): a serial job may stay pending for good, with a reference
  that nobody gives back (`lost` in `ThreadPool`).
- Two calls of `UpdateSize` of one item that overlap leave the bytes of the shared status
  wrong (`datacache.cpp:822`), and `m_memUsed` with them.
- A call that takes longer than 30 seconds stays pending (`threadtools.cpp:2874`).
- `CTSQueue` is not FIFO per producer: two items of one thread may be linked in
  either order when the first hangs behind another thread's node, as above. Its
  count may be below zero for a while, and `m_Tail` may stay behind when no call
  is under way, which `ValidateQueue` (`tslist.h:803`) reports as corrupt.

## What is not modelled

In `NetChan`: the TCP stream (`net_notcp` is on by default), unreliable and voice
data, bandwidth, split-screen children, demo channels, single player payloads
(the 3-bit fragment count does not hold them). Overflow of `m_StreamReliable`
ends a connection and is left to the module of the connection; the model stops
before it. In `DataManager`: the wrap of serial numbers and lock counts, the end
of life of the manager. In `DataCache`: adding and removing sections, `SetSize`
and `Purge` of the shared cache (loops of the manager, modelled there), finding
items by client, the lock counters, reports. In `SplitPacket`: datagrams without a
channel, 128 and more fragments, the limit of the queue, time. In `ThreadPool`:
affinity, per frame jobs, filters and priorities of `ExecuteToPriority`, pools with
`m_bExecOnThreadPoolThreadsOnly` (the material system's: clients neither execute a job
they add nor service the queue while they wait), jobs added twice, jobs that use the
pool, parallel loops. In `TSQueue`: `Purge`, `RemoveAll` and
`ValidateQueue`, which are not for several threads, weak memory, the wrap of
sequence numbers. The wrap of handles' serial numbers (`datamanager.cpp:408`),
pointers used without a lock (`datamanager.cpp:231`) and frame locks whose owners
wait for one another (`datacache.cpp:538`) depend on callers outside the models.

Most of the repository is rendering, game rules, entities, audio, tools and
third-party code: numeric work and tables over large states, single threaded,
without a control core that could be checked apart from it. Everything else is listed with its
reason under `components` in `PROJECT.json`.
