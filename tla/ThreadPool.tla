----------------------------- MODULE ThreadPool -----------------------------
(***************************************************************************)
(* CThreadPool, CJobThread and CJob (vstdlib/jobthread.cpp, .h) with the   *)
(* calls of CWorkerThread and CThread::Suspend (tier0/threadtools.cpp,     *)
(* .inl): clients add jobs, wait for them, execute or abort them           *)
(* themselves, suspend and resume the pool, drain its queues and stop it,  *)
(* while the workers service the queues.                                   *)
(*                                                                         *)
(* The queues are those of JobQueue: one that all share, and a direct one  *)
(* per worker, named like the worker. Left out: affinity, thread           *)
(* priorities, the list of per frame jobs, filters, m_nJobs, which is only *)
(* reported, m_bExecOnThreadPoolThreadsOnly, a job added a second time,    *)
(* and what DoExecute does with the pool.                                  *)
(***************************************************************************)
EXTENDS JobQueue

CONSTANTS
  Worker, Client,
  Shared,      \* m_SharedQueue
  Index,       \* [Worker -> Nat], where a worker is in m_Threads
  First,       \* m_Threads[0], the worker of the serial jobs
  Kind,        \* [Job -> {"default", "queue", "serial"}], the job's flags: neither JF_IO
               \* nor JF_QUEUE, one of them, and with JF_SERIAL as well
  NoJob, Nobody,
  MaxBulk      \* bound: operations of a client on the whole pool

ASSUME PoolAssumption ==
  /\ Thread = Worker \cup Client
  /\ Worker \cap Client = {}
  /\ Queue = Worker \cup {Shared}
  /\ Shared \notin Worker
  /\ First \in Worker
  /\ Index \in [Worker -> Nat]
  /\ \A v, w \in Worker : Index[v] = Index[w] => v = w
  /\ \A w \in Worker : Index[First] <= Index[w]
  /\ Nobody \notin Thread
  /\ NoJob \notin Job
  /\ Kind \in [Job -> {"default", "queue", "serial"}]
  /\ MaxBulk \in Nat

VARIABLES
  thread,  \* where a thread is, the job it is at, how, and for what operation
  job,     \* CJob: m_status, owner of m_mutex, m_CompleteEvent, m_priority, references;
           \* history: the calls of DoExecute and DoAbort, the references lost
  client,  \* per client: the jobs it has a reference to, the suspensions it has to end,
           \* the operations on the whole pool it may still begin
  worker,  \* m_Param, "none" while m_EventSend is not set; m_NotSuspendedEvent
  pool     \* CThreadPool: m_Threads, m_nSuspend, owner of m_SuspendMutex, the workers
           \* that m_nIdleThreads counts

vars == <<items, nItems, available, access, thread, job, client, worker, pool>>

At(t, where) == thread[t].at = where
Goto(t, where) == thread' = [thread EXCEPT ![t].at = where]
Start(t, where, j, mode, op) ==
  thread' = [thread EXCEPT ![t] = [at |-> where, job |-> j, mode |-> mode, op |-> op,
                                   todo |-> {}]]
GotoAll(t, where, set) == thread' = [thread EXCEPT ![t].at = where, ![t].todo = set]

CanExecute(j) == job[j].status \in {"UNSERVICED", "PENDING"}
IsFinished(j) == job[j].status \in {"OK", "ABORTED"}

\* A started pool, and clients that share out the jobs there are.
Init ==
  /\ QInit
  /\ \E threads \in SUBSET Worker :
       /\ First \in threads
       /\ pool = [threads |-> threads, nSuspend |-> 0, suspending |-> Nobody, idle |-> threads]
       /\ thread = [t \in Thread |->
                      [at |-> IF t \in Client THEN "free"
                              ELSE IF t \in threads THEN "wait" ELSE "exited",
                       job |-> NoJob, mode |-> "service", op |-> "none", todo |-> {}]]
  /\ client \in [Client -> [held : SUBSET Job, suspends : {0}, bulk : 0 .. MaxBulk]]
  /\ \A c, d \in Client : c # d => client[c].held \cap client[d].held = {}
  /\ job = [j \in Job |-> [status |-> "UNSERVICED", owner |-> Nobody, done |-> FALSE,
                           priority |-> 0, calls |-> 0, lost |-> 0,
                           refs |-> IF \E c \in Client : j \in client[c].held THEN 1 ELSE 0]]
  /\ worker = [w \in Worker |-> [call |-> "none", awake |-> TRUE]]

-----------------------------------------------------------------------------
(* Pop: from a queue to the check of the job found, or elsewhere             *)

Pop(t, q, otherwise) ==
  /\ \/ Reserve(t, q) /\ Goto(t, "scan")
     \/ nItems[q] = 0 /\ otherwise /\ UNCHANGED qvars
  /\ UNCHANGED <<job, client, worker>>

\* A worker stops counting as idle with the first job it takes.
Scan(t) ==
  /\ At(t, "scan")
  /\ \/ Skip(t) /\ UNCHANGED <<thread, pool>>
     \/ /\ Take(t)
        /\ thread' = [thread EXCEPT ![t].at = "check", ![t].job = Head(Level(t))]
        /\ pool' = [pool EXCEPT !.idle = @ \ {t}]
  /\ UNCHANGED <<job, client, worker>>

-----------------------------------------------------------------------------
(* ServiceJobAndRelease ("service"), Execute, Abort, and Abort followed by   *)
(* Release ("discard") of the job a thread is at                             *)

Mine(t) == thread[t].job
Servicing(t) == thread[t].mode \in {"service", "execute"}
Releasing(t) == thread[t].mode \in {"service", "discard"}

\* Where a thread goes on when it is through with the job.
Back(t) ==
  IF t \in Worker THEN "finish"
  ELSE IF thread[t].op = "wait" THEN "yield"
  ELSE IF thread[t].op \in {"abort all", "execute all"} THEN "drain" ELSE "free"
LeaveJob(t) ==
  thread' = [thread EXCEPT ![t].at = Back(t), ![t].job = NoJob,
                           ![t].mode = IF Back(t) = "free" THEN "service" ELSE @]
Through(t) == IF Releasing(t) THEN Goto(t, "release") ELSE LeaveJob(t)

Check(t) ==
  /\ At(t, "check")
  /\ IF IsFinished(Mine(t)) THEN Through(t) ELSE Goto(t, "lock")
  /\ UNCHANGED <<qvars, job, client, worker, pool>>

\* Mutant: the reference is kept when TryLock fails.
LockOrLeave(t) ==
  /\ At(t, "lock")
  /\ \/ /\ job[Mine(t)].owner = Nobody
        /\ job' = [job EXCEPT ![Mine(t)].owner = t]
        /\ Goto(t, "begin")
     \/ /\ job[Mine(t)].owner # Nobody
        /\ thread[t].mode = "service"
        /\ LeaveJob(t)
        /\ UNCHANGED job
  /\ UNCHANGED <<qvars, client, worker, pool>>

\* Mutant: the lock is taken from its owner.
LockTaken(t) ==
  /\ At(t, "lock")
  /\ job' = [job EXCEPT ![Mine(t)].owner = t]
  /\ Goto(t, "begin")
  /\ UNCHANGED <<qvars, client, worker, pool>>

\* TryLock, or AUTO_LOCK.
Lock(t) ==
  /\ At(t, "lock")
  /\ \/ /\ job[Mine(t)].owner = Nobody
        /\ job' = [job EXCEPT ![Mine(t)].owner = t]
        /\ Goto(t, "begin")
     \/ /\ job[Mine(t)].owner # Nobody
        /\ thread[t].mode = "service"
        /\ Goto(t, "release")
        /\ UNCHANGED job
  /\ UNCHANGED <<qvars, client, worker, pool>>

\* Mutant: the status is not looked at again under the lock.
BeginAnyway(t) ==
  /\ At(t, "begin")
  /\ job' = [job EXCEPT ![Mine(t)].calls = @ + 1,
                        ![Mine(t)].status = IF Servicing(t) THEN "INPROGRESS" ELSE "ABORTED"]
  /\ Goto(t, IF Servicing(t) THEN "run" ELSE "signal")
  /\ UNCHANGED <<qvars, client, worker, pool>>

\* The switch on m_status of Execute and Abort; DoExecute starts, or DoAbort is done.
Begin(t) ==
  /\ At(t, "begin")
  /\ \/ /\ CanExecute(Mine(t))
        /\ job' = [job EXCEPT ![Mine(t)].calls = @ + 1,
                              ![Mine(t)].status = IF Servicing(t) THEN "INPROGRESS"
                                                  ELSE "ABORTED"]
        /\ Goto(t, IF Servicing(t) THEN "run" ELSE "signal")
     \/ /\ ~CanExecute(Mine(t))
        /\ job' = [job EXCEPT ![Mine(t)].owner = Nobody]
        /\ Through(t)
  /\ UNCHANGED <<qvars, client, worker, pool>>

\* DoExecute returns.
Run(t) ==
  /\ At(t, "run")
  /\ job' = [job EXCEPT ![Mine(t)].status = "OK"]
  /\ Goto(t, "signal")
  /\ UNCHANGED <<qvars, client, worker, pool>>

\* The event is set, then the lock released.
Signal(t) ==
  /\ At(t, "signal")
  /\ job' = [job EXCEPT ![Mine(t)].done = TRUE, ![Mine(t)].owner = Nobody]
  /\ Through(t)
  /\ UNCHANGED <<qvars, client, worker, pool>>

Release(t) ==
  /\ At(t, "release")
  /\ job' = [job EXCEPT ![Mine(t)].refs = @ - 1]
  /\ LeaveJob(t)
  /\ UNCHANGED <<qvars, client, worker, pool>>

-----------------------------------------------------------------------------
(* CJobThread::Run *)

\* Wait, then PeekCall.
Wake(w) ==
  /\ At(w, "wait")
  /\ worker[w].call = "none"
  /\ available[Shared] \/ available[w]
  /\ Goto(w, "pop")
  /\ UNCHANGED <<qvars, job, client, worker, pool>>

PopDirect(w) ==
  /\ At(w, "pop")
  /\ Pop(w, w, Goto(w, "pop shared"))
  /\ UNCHANGED pool

BackToWait(w) ==
  /\ Goto(w, "wait")
  /\ pool' = [pool EXCEPT !.idle = @ \cup {w}]

PopShared(w) ==
  /\ At(w, "pop shared")
  /\ Pop(w, Shared, BackToWait(w))
  /\ thread'[w].at = "scan" => UNCHANGED pool

\* A worker that serviced a job takes the next one unless it is called.
Finish(w) ==
  /\ At(w, "finish")
  /\ \/ worker[w].call # "none" /\ BackToWait(w)
     \/ worker[w].call = "none" /\ Goto(w, "pop") /\ UNCHANGED pool
  /\ UNCHANGED <<qvars, job, client, worker>>

\* Reply to a call; the worker then suspends itself, or exits.
Reply(w) ==
  /\ At(w, "wait")
  /\ worker[w].call # "none"
  /\ worker' = [worker EXCEPT ![w].call = "none"]
  /\ \/ worker[w].call = "suspend" /\ Goto(w, "suspend") /\ UNCHANGED pool
     \/ /\ worker[w].call = "exit"
        /\ Goto(w, "exited")
        /\ pool' = [pool EXCEPT !.idle = @ \ {w}]
  /\ UNCHANGED <<qvars, job, client>>

\* CThread::Suspend.
SuspendSelf(w) ==
  /\ At(w, "suspend")
  /\ worker' = [worker EXCEPT ![w].awake = FALSE]
  /\ Goto(w, "suspended")
  /\ UNCHANGED <<qvars, job, client, pool>>

\* Mutant: any end of the wait for m_NotSuspendedEvent is taken for the event.
AwakenAnyway(w) ==
  /\ At(w, "suspended")
  /\ Goto(w, "wait")
  /\ UNCHANGED <<qvars, job, client, worker, pool>>

Awaken(w) ==
  /\ At(w, "suspended")
  /\ worker[w].awake
  /\ Goto(w, "wait")
  /\ UNCHANGED <<qvars, job, client, worker, pool>>

-----------------------------------------------------------------------------
(* Jobs, as the clients handle them *)

Free(c) == At(c, "free") /\ \A d \in Client : thread[d].op # "stop"
Held(c, j) == j \in client[c].held

\* AddJob executes a job at once when nobody is idle who could.
AddInline(c, j) ==
  /\ Free(c) /\ Held(c, j)
  /\ job[j].status = "UNSERVICED"
  /\ pool.threads = {} \/ (Kind[j] = "default" /\ pool.idle = {})
  /\ Start(c, "check", j, "execute", "none")
  /\ UNCHANGED <<qvars, job, client, worker, pool>>

Target(j) == IF Kind[j] = "serial" THEN First ELSE Shared
Urgency(j) == IF Kind[j] = "default" THEN TopPriority ELSE job[j].priority

\* AddJob up to the PushItem of Push; CountItem follows.
AddJob(c, j) ==
  /\ Free(c) /\ Held(c, j)
  /\ job[j].status = "UNSERVICED"
  /\ pool.threads # {}
  /\ Kind[j] # "default" \/ pool.idle # {}
  /\ job' = [job EXCEPT ![j].status = "PENDING", ![j].priority = Urgency(j), ![j].refs = @ + 1]
  /\ PushItem(c, Target(j), Urgency(j), j)
  /\ Start(c, "count", j, "service", "none")
  /\ UNCHANGED <<client, worker, pool>>

\* ChangePriority pushes the job once more, on the shared queue.
ChangePriority(c, j, p) ==
  /\ Free(c) /\ Held(c, j)
  /\ job[j].status # "UNSERVICED"
  /\ job[j].priority < p
  /\ job' = [job EXCEPT ![j].priority = p, ![j].refs = @ + 1]
  /\ PushItem(c, Shared, p, j)
  /\ Start(c, "count", j, "service", "none")
  /\ UNCHANGED <<client, worker, pool>>

Count(c) ==
  /\ At(c, "count")
  /\ CountItem(c)
  /\ Start(c, "free", NoJob, "service", "none")
  /\ UNCHANGED <<job, client, worker, pool>>

\* Execute or Abort by the client.
ExecuteOrAbort(c, j, mode) ==
  /\ Free(c) /\ Held(c, j)
  /\ ~IsFinished(j)
  /\ Start(c, "check", j, mode, "none")
  /\ UNCHANGED <<qvars, job, client, worker, pool>>

\* The client's Release.
LetGo(c, j) ==
  /\ Free(c) /\ Held(c, j)
  /\ client' = [client EXCEPT ![c].held = @ \ {j}]
  /\ job' = [job EXCEPT ![j].refs = @ - 1]
  /\ UNCHANGED <<qvars, thread, worker, pool>>

\* WaitForFinish; nobody waits while it suspends the pool itself, or for a job not
\* added, or once the pool has stopped.
WaitForFinish(c, j) ==
  /\ Free(c) /\ Held(c, j)
  /\ client[c].suspends = 0 /\ pool.threads # {}
  /\ ~IsFinished(j) /\ job[j].status # "UNSERVICED"
  /\ thread' = [thread EXCEPT ![c] = [at |-> "yield", job |-> NoJob, mode |-> "service",
                                      op |-> "wait", todo |-> {j}]]
  /\ UNCHANGED <<qvars, job, client, worker, pool>>

\* YieldWait: looks whether the job is done, and services the shared queue until
\* there is nothing in it.
Yield(c) ==
  /\ At(c, "yield")
  /\ \A j \in thread[c].todo : ~job[j].done
  /\ Goto(c, "help")
  /\ UNCHANGED <<qvars, job, client, worker, pool>>

Help(c) ==
  /\ At(c, "help")
  /\ Pop(c, Shared, Goto(c, "block"))
  /\ UNCHANGED pool

EndWait(c) ==
  /\ At(c, "yield") \/ At(c, "block")
  /\ \A j \in thread[c].todo : job[j].done
  /\ Start(c, "free", NoJob, "service", "none")
  /\ UNCHANGED <<qvars, job, client, worker, pool>>

-----------------------------------------------------------------------------
(* SuspendExecution and ResumeExecution, by themselves or around AbortAll    *)
(* and ExecuteAll                                                            *)

Begun(c) ==
  /\ client[c].bulk > 0
  /\ client' = [client EXCEPT ![c].bulk = @ - 1]

Bulk(c, op) ==
  /\ Free(c) /\ pool.threads # {}
  /\ Begun(c)
  /\ Start(c, "enter", NoJob, IF op = "abort all" THEN "discard" ELSE "service", op)
  /\ UNCHANGED <<qvars, job, worker, pool>>

\* What AbortAll goes through queue by queue, and ExecuteToPriority priority by priority.
ToDrain(op) ==
  LET queues == pool.threads \cup {Shared}
  IN  IF op = "abort all" THEN queues ELSE queues \X Priority

Suspended(c) ==
  IF thread[c].op = "suspend"
  THEN /\ client' = [client EXCEPT ![c].suspends = @ + 1]
       /\ Start(c, "free", NoJob, "service", "none")
  ELSE client' = client /\ GotoAll(c, "drain", ToDrain(thread[c].op))

Enter(c) ==
  /\ At(c, "enter")
  /\ pool.suspending = Nobody
  /\ \/ /\ pool.nSuspend = 0
        /\ pool' = [pool EXCEPT !.suspending = c]
        /\ GotoAll(c, "call", pool.threads)
        /\ UNCHANGED client
     \/ /\ pool.nSuspend # 0
        /\ pool' = [pool EXCEPT !.nSuspend = @ + 1]
        /\ Suspended(c)
  /\ UNCHANGED <<qvars, job, worker>>

\* CallWorker for each worker. Nothing is made of the replies: WaitForReply gives
\* up when they take too long.
CallWorker(c) ==
  /\ At(c, "call")
  /\ \/ \E w \in thread[c].todo :
          /\ worker' = [worker EXCEPT ![w].call = IF thread[c].op = "stop" THEN "exit"
                                                  ELSE "suspend"]
          /\ thread' = [thread EXCEPT ![c].todo = @ \ {w}]
     \/ /\ thread[c].todo = {}
        /\ GotoAll(c, IF thread[c].op = "stop" THEN "join" ELSE "settle", pool.threads)
        /\ UNCHANGED worker
  /\ UNCHANGED <<qvars, job, client, pool>>

\* Mutant: nobody waits for the workers to be suspended.
SettleAtOnce(c) ==
  /\ At(c, "settle")
  /\ pool' = [pool EXCEPT !.nSuspend = @ + 1, !.suspending = Nobody]
  /\ Suspended(c)
  /\ UNCHANGED <<qvars, job, worker>>

\* Until IsSuspended for each worker.
Settle(c) ==
  /\ At(c, "settle")
  /\ \A w \in thread[c].todo : ~worker[w].awake
  /\ pool' = [pool EXCEPT !.nSuspend = @ + 1, !.suspending = Nobody]
  /\ Suspended(c)
  /\ UNCHANGED <<qvars, job, worker>>

\* m_Threads from its start, the shared queue after it.
Ahead(q, r) == q # Shared /\ (r = Shared \/ Index[q] < Index[r])

\* AbortAll: the shared queue before the direct ones, each until Pop finds nothing.
AbortNext(c) ==
  /\ At(c, "drain") /\ thread[c].op = "abort all"
  /\ LET todo == thread[c].todo
     IN  \E q \in Queue :
           /\ q \in todo
           /\ q = Shared \/ (Shared \notin todo /\ \A r \in todo : ~Ahead(r, q))
           /\ Pop(c, q, GotoAll(c, "drain", todo \ {q}))
  /\ UNCHANGED pool

\* ExecuteToPriority: where it has got to.
Turn(c, q, p) ==
  /\ <<q, p>> \in thread[c].todo
  /\ \A r \in Queue, o \in Priority :
       <<r, o>> \in thread[c].todo => o < p \/ (o = p /\ ~Ahead(r, q))

\* Count of the jobs of a priority in a queue, until it says that there are none.
CountNext(c) ==
  /\ At(c, "drain") /\ thread[c].op = "execute all"
  /\ \E q \in Queue, p \in Priority :
       /\ Turn(c, q, p)
       /\ IF items[q][p] = <<>> THEN GotoAll(c, "drain", thread[c].todo \ {<<q, p>>})
                                ELSE Goto(c, "pop next")
  /\ UNCHANGED <<qvars, job, client, worker, pool>>

\* The Pop after it; nothing is made of the result, and no job is serviced as one.
ExecuteNext(c) ==
  /\ At(c, "pop next")
  /\ \E q \in Queue, p \in Priority : Turn(c, q, p) /\ Pop(c, q, Goto(c, "crashed"))
  /\ UNCHANGED pool

Drained(c) ==
  /\ At(c, "drain")
  /\ thread[c].todo = {}
  /\ Goto(c, "resume")
  /\ UNCHANGED <<qvars, job, client, worker, pool>>

\* The process is gone: a job that is not there was serviced.
Crashed == \E c \in Client : At(c, "crashed")

\* Mutant: the workers go on though the pool is still suspended.
ResumeAll(c) ==
  /\ At(c, "resume")
  /\ pool.suspending = Nobody
  /\ pool' = [pool EXCEPT !.nSuspend = @ - 1]
  /\ worker' = [w \in Worker |-> [worker[w] EXCEPT !.awake = TRUE]]
  /\ Start(c, "free", NoJob, "service", "none")
  /\ UNCHANGED <<qvars, job, client>>

Resume(c) ==
  /\ At(c, "resume")
  /\ pool.suspending = Nobody
  /\ pool' = [pool EXCEPT !.nSuspend = @ - 1]
  /\ worker' = [w \in Worker |-> [worker[w] EXCEPT !.awake = @ \/ pool.nSuspend = 1]]
  /\ Start(c, "free", NoJob, "service", "none")
  /\ UNCHANGED <<qvars, job, client>>

EndSuspend(c) ==
  /\ Free(c)
  /\ client[c].suspends > 0
  /\ client' = [client EXCEPT ![c].suspends = @ - 1]
  /\ Start(c, "resume", NoJob, "service", "resume")
  /\ UNCHANGED <<qvars, job, worker, pool>>

-----------------------------------------------------------------------------
(* Stop, while no other client uses the pool *)

Stop(c) ==
  /\ \A d \in Client : Free(d) /\ client[d].suspends = 0
  /\ pool.threads # {}
  /\ Begun(c)
  /\ thread' = [thread EXCEPT ![c].at = "call", ![c].todo = pool.threads, ![c].op = "stop"]
  /\ UNCHANGED <<qvars, job, worker, pool>>

Entries(q, j) == {e \in Places(q, TopPriority) : items[q][e[1]][e[2]] = j}
EntriesOf(queues, j) == UNION {{<<q, e>> : e \in Entries(q, j)} : q \in queues}

\* The workers are deleted with their direct queues, and the references of the jobs in
\* these are lost: nobody executes, aborts or releases them. The shared queue is flushed.
Join(c) ==
  /\ At(c, "join")
  /\ \A w \in thread[c].todo : At(w, "exited")
  /\ job' = [j \in Job |->
               [job[j] EXCEPT
                  !.refs = @ - Cardinality(Entries(Shared, j)),
                  !.lost = @ + Cardinality(EntriesOf(pool.threads, j)),
                  !.status = IF Entries(Shared, j) # {} /\ CanExecute(j) THEN "ABORTED" ELSE @,
                  !.calls = IF Entries(Shared, j) # {} /\ CanExecute(j) THEN @ + 1 ELSE @,
                  !.done = @ \/ (Entries(Shared, j) # {} /\ CanExecute(j))]]
  /\ Flush(pool.threads \cup {Shared})
  /\ pool' = [pool EXCEPT !.threads = {}, !.idle = {}]
  /\ Start(c, "free", NoJob, "service", "none")
  /\ UNCHANGED <<client, worker>>

-----------------------------------------------------------------------------
Service(t) ==
  \/ Scan(t) \/ Check(t) \/ Lock(t) \/ Begin(t) \/ Run(t) \/ Signal(t)
  \/ Release(t)

Work(w) ==
  /\ ~Crashed
  /\ \/ Service(w) \/ Wake(w) \/ PopDirect(w) \/ PopShared(w)
     \/ Finish(w) \/ Reply(w) \/ SuspendSelf(w) \/ Awaken(w)

\* What a client has begun.
Continue(c) ==
  /\ ~Crashed
  /\ \/ Service(c) \/ Count(c) \/ Yield(c) \/ Help(c) \/ EndWait(c)
     \/ Enter(c) \/ CallWorker(c) \/ Settle(c) \/ AbortNext(c) \/ CountNext(c)
     \/ ExecuteNext(c) \/ Drained(c) \/ Resume(c) \/ EndSuspend(c) \/ Join(c)

Begins(c) ==
  /\ ~Crashed
  /\ \/ \E j \in Job :
          \/ AddInline(c, j) \/ AddJob(c, j) \/ LetGo(c, j) \/ WaitForFinish(c, j)
          \/ \E p \in Priority : ChangePriority(c, j, p)
          \/ \E mode \in {"execute", "abort"} : ExecuteOrAbort(c, j, mode)
     \/ \E op \in {"suspend", "abort all", "execute all"} : Bulk(c, op)
     \/ Stop(c)

Next ==
  \/ \E w \in Worker : Work(w)
  \/ \E c \in Client : Continue(c) \/ Begins(c)

Spec == Init /\ [][Next]_vars

\* Every thread runs on, jobs return, and clients resume the pool they suspended.
Fairness ==
  /\ \A w \in Worker : WF_vars(Work(w))
  /\ \A c \in Client : WF_vars(Continue(c))

FairSpec == Spec /\ Fairness

-----------------------------------------------------------------------------
InService == {"check", "lock", "begin", "run", "signal", "release"}

TypeOK ==
  /\ QTypeOK
  /\ \A t \in Thread : At(t, "scan") <=> access[t].at = "scanning"
  /\ \A t \in Thread : thread[t].at \in InService => Mine(t) \in Job
  /\ \A j \in Job :
       /\ job[j].status \in {"UNSERVICED", "PENDING", "INPROGRESS", "OK", "ABORTED"}
       /\ job[j].refs \in Nat /\ job[j].lost \in Nat
       /\ \A t \in Thread :
            job[j].owner = t <=> /\ thread[t].at \in {"begin", "run", "signal"}
                                 /\ Mine(t) = j
  /\ pool.nSuspend \in Nat
  /\ pool.idle \subseteq pool.threads

\* A job is executed or aborted at most once, whoever gets at it: workers, a client
\* that waits, forces it or drains the queues, and twice when it was queued again;
\* it is signalled when that is over.
CalledOnce ==
  \A j \in Job :
    /\ job[j].calls <= 1
    /\ IsFinished(j) => job[j].calls = 1
    /\ job[j].done => IsFinished(j)

\* A job's references are those of its holders, of the queues and of the threads
\* that service it, so none of them touches a job that is gone. What is left over when
\* they are through with the job is what Stop lost with the direct queues.
RefsAddUp ==
  \A j \in Job :
    job[j].refs =
      Cardinality({c \in Client : Held(c, j)})
      + Cardinality(EntriesOf(Queue, j))
      + Cardinality({t \in Thread :
                       thread[t].at \in InService /\ Releasing(t) /\ Mine(t) = j})
      + job[j].lost

\* While the pool is suspended every worker is, and stays so.
SuspendedStill ==
  pool.nSuspend > 0 => \A w \in pool.threads : At(w, "suspended") /\ ~worker[w].awake

\* A worker is never called while a call is pending: the assertion of Call.
CallsAlone ==
  \A c \in Client : At(c, "call") => \A w \in thread[c].todo : worker[w].call = "none"

\* A job that was queued is executed or aborted and its event set, unless it was in a
\* direct queue when the pool was stopped, or a job that was not there was serviced.
JobsFinish ==
  \A j \in Job : job[j].status = "PENDING" ~> (job[j].done \/ job[j].lost > 0 \/ Crashed)

\* As long as one client is the only one to use the pool, ExecuteAll finds a job each
\* time that it counted some, although it looks at the count of one priority and pops
\* from them all with no lock held in between: the workers are suspended by then.
OnlyUser(c) == \A d \in Client \ {c} : client[d].held = {} /\ client[d].bulk = 0
JobsThere == (\E c \in Client : OnlyUser(c)) => []~Crashed
=============================================================================
