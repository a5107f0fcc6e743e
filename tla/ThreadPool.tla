----------------------------- MODULE ThreadPool -----------------------------
(***************************************************************************)
(* The worker pool of protocol/vca_threadpool.h (include/vca_threadPool.h  *)
(* is a second copy of the same class).  Worker threads take tasks from a  *)
(* queue guarded by queue_mutex and sleep on the condition variable while  *)
(* it is empty; enqueue appends under the mutex and notifies after it has  *)
(* released it; the destructor raises stop under the mutex, notifies every *)
(* worker and joins them.                                                  *)
(*                                                                         *)
(* The worker's critical section is split where the condition variable     *)
(* needs it: the predicate is evaluated in one step and the thread goes to *)
(* sleep, releasing the mutex, in another.  The critical sections of       *)
(* enqueue and of the destructor touch nothing that is read outside the    *)
(* mutex, so each is one step taken while the mutex is free.               *)
(***************************************************************************)
EXTENDS Naturals, Sequences, FiniteSets

CONSTANTS Workers,    \* the worker threads
          Producers,  \* the threads that call enqueue
          Tasks,      \* the tasks they enqueue
          NoTask,     \* the job of a worker that has none
          NoThread    \* the holder of a free mutex

ASSUME ThreadPoolAssumption ==
    /\ IsFiniteSet(Workers) /\ Workers # {}
    /\ IsFiniteSet(Producers)
    /\ NoTask \notin Tasks
    /\ NoThread \notin Workers

VARIABLES
    tasks,        \* std::queue of the pool
    stop,         \* the stop flag
    queue_mutex,  \* the worker that holds the mutex between two steps
    wpc,          \* where each worker is in its loop
    job,          \* the task each worker has moved out of the queue
    ppc,          \* where each producer is in enqueue
    owner,        \* where the thread that destroys the pool is
    given,        \* tasks some call of enqueue was made for
    rejected,     \* tasks enqueue refused with "enqueue on stopped ThreadPool"
    done          \* tasks that have been executed

vars == <<tasks, stop, queue_mutex, wpc, job, ppc, owner, given, rejected, done>>

WorkerPC == {"lock", "locked", "sleep", "waiting", "run", "exited"}
OwnerPC == {"alive", "notify", "join", "destroyed"}

TypeOK ==
    /\ tasks \in Seq(Tasks)
    /\ stop \in BOOLEAN
    /\ queue_mutex \in Workers \cup {NoThread}
    /\ wpc \in [Workers -> WorkerPC]
    /\ job \in [Workers -> Tasks \cup {NoTask}]
    /\ ppc \in [Producers -> {"out", "notify"}]
    /\ owner \in OwnerPC
    /\ given \in SUBSET Tasks
    /\ rejected \in SUBSET Tasks
    /\ done \in SUBSET Tasks

Init ==
    /\ tasks = <<>>
    /\ stop = FALSE
    /\ queue_mutex = NoThread
    /\ wpc = [w \in Workers |-> "lock"]
    /\ job = [w \in Workers |-> NoTask]
    /\ ppc = [p \in Producers |-> "out"]
    /\ owner = "alive"
    /\ given = {}
    /\ rejected = {}
    /\ done = {}

MutexFree == queue_mutex = NoThread
Sleeping == {w \in Workers : wpc[w] = "waiting"}
Queued == {tasks[i] : i \in DOMAIN tasks}
Running == {job[w] : w \in {v \in Workers : wpc[v] = "run"}}

\* A call of enqueue makes a task of its own; the name of one that has been
\* executed stands for another.
Fresh(t) == t \notin Queued \cup Running \cup rejected

-----------------------------------------------------------------------------
(* The worker loop.                                                        *)

Acquire(w) ==
    /\ wpc[w] = "lock"
    /\ MutexFree
    /\ queue_mutex' = w
    /\ wpc' = [wpc EXCEPT ![w] = "locked"]
    /\ UNCHANGED <<tasks, stop, job, ppc, owner, given, rejected, done>>

\* The predicate of condition.wait is false: the thread will block.
PredicateFails(w) ==
    /\ wpc[w] = "locked"
    /\ ~stop /\ tasks = <<>>
    /\ wpc' = [wpc EXCEPT ![w] = "sleep"]
    /\ UNCHANGED <<tasks, stop, queue_mutex, job, ppc, owner, given, rejected, done>>

\* Blocking and releasing the mutex are one indivisible step of the wait.
Sleep(w) ==
    /\ wpc[w] = "sleep"
    /\ queue_mutex' = NoThread
    /\ wpc' = [wpc EXCEPT ![w] = "waiting"]
    /\ UNCHANGED <<tasks, stop, job, ppc, owner, given, rejected, done>>

SpuriousWakeup(w) ==
    /\ wpc[w] = "waiting"
    /\ wpc' = [wpc EXCEPT ![w] = "lock"]
    /\ UNCHANGED <<tasks, stop, queue_mutex, job, ppc, owner, given, rejected, done>>

\* Mutation: a worker leaves on stop whatever is queued.
Exit_atOnce(w) ==
    /\ wpc[w] = "locked"
    /\ stop
    /\ queue_mutex' = NoThread
    /\ wpc' = [wpc EXCEPT ![w] = "exited"]
    /\ UNCHANGED <<tasks, stop, job, ppc, owner, given, rejected, done>>

Exit(w) ==
    /\ wpc[w] = "locked"
    /\ stop /\ tasks = <<>>
    /\ queue_mutex' = NoThread
    /\ wpc' = [wpc EXCEPT ![w] = "exited"]
    /\ UNCHANGED <<tasks, stop, job, ppc, owner, given, rejected, done>>

\* Mutation: the front of the queue is copied and not popped.
Take_noPop(w) ==
    /\ wpc[w] = "locked"
    /\ tasks # <<>>
    /\ job' = [job EXCEPT ![w] = Head(tasks)]
    /\ queue_mutex' = NoThread
    /\ wpc' = [wpc EXCEPT ![w] = "run"]
    /\ UNCHANGED <<tasks, stop, ppc, owner, given, rejected, done>>

\* Mutation: the task is run with the mutex still held.
Take_noUnlock(w) ==
    /\ wpc[w] = "locked"
    /\ tasks # <<>>
    /\ job' = [job EXCEPT ![w] = Head(tasks)]
    /\ tasks' = Tail(tasks)
    /\ wpc' = [wpc EXCEPT ![w] = "run"]
    /\ UNCHANGED <<queue_mutex, stop, ppc, owner, given, rejected, done>>

Take(w) ==
    /\ wpc[w] = "locked"
    /\ tasks # <<>>
    /\ job' = [job EXCEPT ![w] = Head(tasks)]
    /\ tasks' = Tail(tasks)
    /\ queue_mutex' = NoThread
    /\ wpc' = [wpc EXCEPT ![w] = "run"]
    /\ UNCHANGED <<stop, ppc, owner, given, rejected, done>>

\* Mutation: the task is moved away before it is called.
Execute_movedFrom(w) ==
    /\ wpc[w] = "run"
    /\ job' = [job EXCEPT ![w] = NoTask]
    /\ done' = done \cup {job'[w]}
    /\ wpc' = [wpc EXCEPT ![w] = "lock"]
    /\ UNCHANGED <<tasks, stop, queue_mutex, ppc, owner, given, rejected>>

\* task() returns: packaged_task keeps an exception of the task in its future,
\* so the worker survives it and loops.
Execute(w) ==
    /\ wpc[w] = "run"
    /\ done' = done \cup {job[w]}
    /\ job' = [job EXCEPT ![w] = NoTask]
    /\ wpc' = [wpc EXCEPT ![w] = "lock"]
    /\ UNCHANGED <<tasks, stop, queue_mutex, ppc, owner, given, rejected>>

-----------------------------------------------------------------------------
(* enqueue, by any thread, for as long as the pool exists.                 *)

\* Mutation: notify only when the queue was empty.
Push_notifiesFirstOnly(p, t) ==
    /\ ppc[p] = "out" /\ owner # "destroyed" /\ Fresh(t)
    /\ MutexFree
    /\ ~stop
    /\ tasks' = Append(tasks, t)
    /\ given' = given \cup {t}
    /\ done' = done \ {t}
    /\ ppc' = [ppc EXCEPT ![p] = IF tasks = <<>> THEN "notify" ELSE "out"]
    /\ UNCHANGED <<stop, queue_mutex, wpc, job, owner, rejected>>

\* Mutation: a stopped pool accepts tasks.
Push_whenStopped(p, t) ==
    /\ ppc[p] = "out" /\ owner # "destroyed" /\ Fresh(t)
    /\ MutexFree
    /\ tasks' = Append(tasks, t)
    /\ given' = given \cup {t}
    /\ done' = done \ {t}
    /\ ppc' = [ppc EXCEPT ![p] = "notify"]
    /\ UNCHANGED <<stop, queue_mutex, wpc, job, owner, rejected>>

Push(p, t) ==
    /\ ppc[p] = "out" /\ owner # "destroyed" /\ Fresh(t)
    /\ MutexFree
    /\ ~stop
    /\ tasks' = Append(tasks, t)
    /\ given' = given \cup {t}
    /\ done' = done \ {t}
    /\ ppc' = [ppc EXCEPT ![p] = "notify"]
    /\ UNCHANGED <<stop, queue_mutex, wpc, job, owner, rejected>>

Reject(p, t) ==
    /\ ppc[p] = "out" /\ owner # "destroyed" /\ Fresh(t)
    /\ MutexFree
    /\ stop
    /\ given' = given \cup {t}
    /\ done' = done \ {t}
    /\ rejected' = rejected \cup {t}
    /\ UNCHANGED <<tasks, stop, queue_mutex, wpc, job, ppc, owner>>

\* Mutation: enqueue returns without notifying.
NotifyOne_forgotten(p) ==
    /\ ppc[p] = "notify"
    /\ ppc' = [ppc EXCEPT ![p] = "out"]
    /\ UNCHANGED <<tasks, stop, queue_mutex, wpc, job, owner, given, rejected, done>>

\* notify_one wakes one sleeping worker, whichever, or nobody.
NotifyOne(p) ==
    /\ ppc[p] = "notify"
    /\ ppc' = [ppc EXCEPT ![p] = "out"]
    /\ \/ \E w \in Sleeping : wpc' = [wpc EXCEPT ![w] = "lock"]
       \/ Sleeping = {} /\ UNCHANGED wpc
    /\ UNCHANGED <<tasks, stop, queue_mutex, job, owner, given, rejected, done>>

-----------------------------------------------------------------------------
(* The destructor.                                                         *)

\* Mutation: stop is raised without the mutex.
RaiseStop_unlocked ==
    /\ owner = "alive"
    /\ stop' = TRUE
    /\ owner' = "notify"
    /\ UNCHANGED <<tasks, queue_mutex, wpc, job, ppc, given, rejected, done>>

RaiseStop ==
    /\ owner = "alive"
    /\ MutexFree
    /\ stop' = TRUE
    /\ owner' = "notify"
    /\ UNCHANGED <<tasks, queue_mutex, wpc, job, ppc, given, rejected, done>>

\* Mutation: the destructor wakes one worker only.
NotifyAll_one ==
    /\ owner = "notify"
    /\ \/ \E w \in Sleeping : wpc' = [wpc EXCEPT ![w] = "lock"]
       \/ Sleeping = {} /\ UNCHANGED wpc
    /\ owner' = "join"
    /\ UNCHANGED <<tasks, stop, queue_mutex, job, ppc, given, rejected, done>>

NotifyAll ==
    /\ owner = "notify"
    /\ wpc' = [w \in Workers |-> IF w \in Sleeping THEN "lock" ELSE wpc[w]]
    /\ owner' = "join"
    /\ UNCHANGED <<tasks, stop, queue_mutex, job, ppc, given, rejected, done>>

\* join() of every worker returns.  A caller that is still inside enqueue
\* keeps the pool alive: destroying it under that call is undefined.
JoinAll ==
    /\ owner = "join"
    /\ \A w \in Workers : wpc[w] = "exited"
    /\ \A p \in Producers : ppc[p] = "out"
    /\ owner' = "destroyed"
    /\ UNCHANGED <<tasks, stop, queue_mutex, wpc, job, ppc, given, rejected, done>>

\* Nothing happens in a pool that no longer exists.
Gone == owner = "destroyed" /\ UNCHANGED vars

-----------------------------------------------------------------------------

Worker(w) ==
    \/ Acquire(w) \/ PredicateFails(w) \/ Sleep(w)
    \/ Exit(w) \/ Take(w) \/ Execute(w)

Next ==
    \/ \E w \in Workers : Worker(w) \/ SpuriousWakeup(w)
    \/ \E p \in Producers : NotifyOne(p) \/ \E t \in Tasks : Push(p, t) \/ Reject(p, t)
    \/ RaiseStop \/ NotifyAll \/ JoinAll \/ Gone

Spec == Init /\ [][Next]_vars

\* Threads are scheduled: a worker takes its next step, a mutex that is free
\* again and again is obtained (SF of Acquire), calls under way return.
\* Nobody has to call enqueue or the destructor, tasks return (Execute).
Fairness ==
    /\ \A w \in Workers : WF_vars(Worker(w)) /\ SF_vars(Acquire(w))
    /\ \A p \in Producers : WF_vars(NotifyOne(p))
    /\ WF_vars(NotifyAll) /\ WF_vars(JoinAll)

FairSpec == Spec /\ Fairness

-----------------------------------------------------------------------------
(* Properties.                                                             *)

AwakeIdle == {w \in Workers : wpc[w] \in {"lock", "locked"}}
Notifying == {p \in Producers : ppc[p] = "notify"}

\* No wake-up is lost: while some worker sleeps, each queued task is matched by
\* a worker on its way to the queue or by a notify_one still to be issued.
\* This is what notifying after the unlock (lines 101-114) has to preserve.
NoLostWakeup ==
    Sleeping # {} => Len(tasks) <= Cardinality(AwakeIdle) + Cardinality(Notifying)

\* The mutex is held exactly by the worker between its lock and its unlock, and
\* a worker that has found nothing to do still has nothing to do when it blocks.
MutexInv ==
    /\ \A w \in Workers : queue_mutex = w <=> wpc[w] \in {"locked", "sleep"}
    /\ \A w \in Workers : wpc[w] = "sleep" => ~stop /\ tasks = <<>>

\* Once notify_all has been issued nobody sleeps or is about to: raising stop
\* under the mutex (lines 120-127) leaves no worker to be joined for ever.
NobodySleepsThroughStop ==
    owner \in {"join", "destroyed"} =>
        \A w \in Workers : wpc[w] \notin {"sleep", "waiting"}

\* A worker has a task exactly while it runs one.
JobInv == \A w \in Workers : job[w] # NoTask <=> wpc[w] = "run"

\* stop belongs to the destructor, and a worker has exited only from a stopped
\* pool with nothing left in its queue; join has returned for every worker.
StopInv ==
    /\ stop <=> owner # "alive"
    /\ \A w \in Workers : wpc[w] = "exited" => stop /\ tasks = <<>>
    /\ owner = "destroyed" => \A w \in Workers : wpc[w] = "exited"

\* Nothing given to enqueue has disappeared.
Accounted == given = Queued \cup Running \cup done \cup rejected

\* The inductive invariant behind the theorems of ThreadPool_proofs.
IInv ==
    /\ TypeOK
    /\ JobInv
    /\ MutexInv
    /\ StopInv
    /\ NobodySleepsThroughStop
    /\ Accounted

\* A task given to enqueue is in exactly one place: waiting in the queue, in the
\* hands of one worker, executed, or refused (lines 76-82, 107-111).
TaskInOnePlace ==
    LET places == <<Queued, Running, done, rejected>>
    IN  /\ given = UNION {places[i] : i \in 1..4}
        /\ \A i, j \in 1..4 : i # j => places[i] \cap places[j] = {}
        /\ Cardinality(Queued) = Len(tasks)
        /\ \A v, w \in Workers : job[v] = job[w] /\ job[v] # NoTask => v = w

\* The destructor drains the pool: when it returns every accepted task has been
\* executed (a worker exits only on stop with an empty queue, lines 73-75).
DestructorDrains == owner = "destroyed" => given = done \cup rejected

\* The pool is the abstract one: FIFO start, at most |Workers| at a time, no
\* task accepted after stop, and the oldest task starts once a worker is free.
Pool == INSTANCE TaskPool WITH
            PoolSize <- Cardinality(Workers),
            queue <- tasks, running <- Running, closed <- stop
ImplementsTaskPool == Pool!PoolSpec

\* Every task enqueue accepted is executed (lines 56-83).
AcceptedTaskRuns == \A t \in Tasks : t \in Queued ~> t \in done

\* The destructor returns (lines 119-132).
DestructorReturns == owner = "notify" ~> owner = "destroyed"

=============================================================================
